---- MODULE Spec2Model ----
(***************************************************************************)
(* A model of the FairMQ device lifecycle engine (fairmq/Device.cxx): the  *)
(* state machine it drives, the per-state wrappers run by the single       *)
(* worker thread, the data dispatch of the Running state and the transport *)
(* pool with its interrupt/resume discipline.                              *)
(*                                                                         *)
(* The state machine itself (StateMachine.cxx), the channels (Channel.cxx) *)
(* and the transports are not part of the sources at hand; the parts of    *)
(* them the device relies on are modelled from the specification and are   *)
(* marked so where they are defined.                                       *)
(***************************************************************************)
EXTENDS Integers, Sequences, FiniteSets, TLC

\* ------------------------------------------------------------------ bounds
\* Data callback invocations over the lifetime of the device.
MaxCalls == 3
\* Largest init-timeout (seconds) a configuration carries.
MaxInitTimeout == 1
\* Largest max-iterations the Sink example is configured with.
MaxIterations == 2
\* Entries left in the working lists when the controller initialises the
\* device again (entries pile up over repeated initialisations).
MaxLeftover == 0
\* Transitions the controller gets accepted before the worker takes the next
\* state (how far the controller runs ahead of the worker).
MaxAhead == 2
\* The same where the device is initialised again and again.
MaxStale == 1
\* The largest rateLogging of a sub-channel.
MaxRateLogging == 2
\* Messages a rate-logged sub-channel receives.
MaxMessages == 2
\* The longest the rate logger sleeps at a time, and the time the clock
\* runs to (milliseconds).
MaxSlice == 2
MaxClock == 4

\* ------------------------------------------------------- program constants
\* ConnectWrapper: auto sleepTimeInMS = 50
sleepTimeInMS == 50
\* ConnectWrapper: fInitializationTimeoutInS * 1000 / sleepTimeInMS
msPerSecond == 1000

\* -------------------------------------------------------------- vocabulary
States ==
    {"Idle", "InitializingDevice", "Initialized", "Binding", "Bound",
     "Connecting", "DeviceReady", "InitializingTask", "Ready", "Running",
     "ResettingTask", "ResettingDevice", "Exiting", "Error"}

Transitions ==
    {"Auto", "InitDevice", "CompleteInit", "Bind", "Connect", "InitTask",
     "Run", "Stop", "ResetTask", "ResetDevice", "End", "ErrorFound"}

\* The channel names of the configurations, in the order the map is walked.
ChannelOrder == <<"data", "meta">>

ChannelNames == {ChannelOrder[i] : i \in 1..Len(ChannelOrder)}

\* Transport kinds a channel may name; "DEFAULT" stands for the device default.
Kinds == {"zeromq", "shmem"}

\* Names the "transport" configuration key may carry (TransportTypes.at).
TransportNames == Kinds

\* A channel address is a list of endpoints ("a,b"); an endpoint is
\* [modifier]scheme://host:port, the modifier being '@', '+', '>' or none.
Ep(mod, scheme, host, port) ==
    [mod |-> mod, scheme |-> scheme, host |-> host, port |-> port]

Modifiers == {"@", "+", ">"}

\* "tcp://<host>:1"
Tcp(host) == <<Ep("", "tcp", host, 1)>>

\* The address "unspecified": no endpoint at all.
Unspecified == <<Ep("", "unspecified", "", 0)>>

\* The hosts of the configurations: the names "live" (which resolves to
\* 10.0.0.1) and "dead" (which nobody resolves), the addresses 10.0.0.1 and
\* 10.0.0.2 (the one of the local network interface), and "*".
IpAddresses == {"10.0.0.1", "10.0.0.2"}

\* An endpoint that attaches as it is written, and one that never does.
Live == Tcp("10.0.0.1")

Dead == Tcp("dead")

\* ------------------------------------------------------------- state machine
\* The lifecycle graph: the linear lifecycle, the reset shortcuts, and the
\* ErrorFound edges to Error. Nothing leaves Exiting (but ErrorFound) or Error.
Terminal == {"Exiting", "Error"}

TransitionTable ==
    {<<"Idle", "InitDevice", "InitializingDevice">>,
     <<"Idle", "End", "Exiting">>,
     <<"InitializingDevice", "CompleteInit", "Initialized">>,
     <<"Initialized", "Bind", "Binding">>,
     <<"Initialized", "ResetDevice", "ResettingDevice">>,
     <<"Binding", "Auto", "Bound">>,
     <<"Bound", "Connect", "Connecting">>,
     <<"Bound", "ResetDevice", "ResettingDevice">>,
     <<"Connecting", "Auto", "DeviceReady">>,
     <<"DeviceReady", "InitTask", "InitializingTask">>,
     <<"DeviceReady", "ResetDevice", "ResettingDevice">>,
     <<"InitializingTask", "Auto", "Ready">>,
     <<"Ready", "Run", "Running">>,
     <<"Ready", "ResetTask", "ResettingTask">>,
     <<"Running", "Stop", "Ready">>,
     <<"ResettingTask", "Auto", "DeviceReady">>,
     <<"ResettingDevice", "Auto", "Idle">>}

\* ErrorFound is accepted in every state but Error itself.
LifecycleEdges ==
    TransitionTable \cup {<<s, "ErrorFound", "Error">> : s \in States \ {"Error"}}

IsValid(s, t) == \E e \in LifecycleEdges : e[1] = s /\ e[2] = t

Target(s, t) == (CHOOSE e \in LifecycleEdges : e[1] = s /\ e[2] = t)[3]

\* s2 is the target of a single lifecycle transition from s1.
Edge(s1, s2) == \E e \in LifecycleEdges : e[1] = s1 /\ e[3] = s2

\* The states reachable from the states of S by one or more transitions.
RECURSIVE ReachFrom(_)
ReachFrom(S) ==
    LET T == S \cup {e[3] : e \in {x \in LifecycleEdges : x[1] \in S}}
    IN  IF T = S THEN S ELSE ReachFrom(T)

Path(s1, s2) == s2 \in ReachFrom({e[3] : e \in {x \in LifecycleEdges : x[1] = s1}})

\* ------------------------------------------------------------ configuration
\* One sub-channel as the configuration describes it (chans.<name>.<i>.*).
ChanCfg(name, idx, method, address, transport) ==
    [name |-> name, idx |-> idx, method |-> method, address |-> address,
     transport |-> transport]

\* A device with no data callbacks (ConditionalRun/Run) and one connecting
\* channel. Where the peer is there from the start the user hooks may throw
\* and ConditionalRun may return false; where its address is not known yet
\* the hooks behave and the init-timeout varies.
CondConfigs ==
    {[dispatch |-> "cond", inputKeys |-> <<>>, transport |-> "zeromq",
      chans |-> <<ChanCfg("data", 0, "connect", Live, "DEFAULT")>>,
      initTimeout |-> MaxInitTimeout, maxIterations |-> 0, userThrows |-> th,
      conditionalRunForever |-> cf]
        : th \in BOOLEAN, cf \in BOOLEAN}
    \cup
    {[dispatch |-> "cond", inputKeys |-> <<>>, transport |-> "zeromq",
      chans |-> <<ChanCfg("data", 0, "connect", Dead, "DEFAULT")>>,
      initTimeout |-> t, maxIterations |-> 0, userThrows |-> FALSE,
      conditionalRunForever |-> TRUE]
        : t \in 0..MaxInitTimeout}

\* The Sink example: OnData("data", &Sink::HandleData), one bound sub-channel.
SinkConfigs ==
    {[dispatch |-> "sink", inputKeys |-> <<"data">>, transport |-> "zeromq",
      chans |-> <<ChanCfg("data", 0, "bind", Live, "DEFAULT")>>,
      initTimeout |-> MaxInitTimeout, maxIterations |-> n, userThrows |-> FALSE,
      conditionalRunForever |-> FALSE]
        : n \in 0..MaxIterations}

\* A device with a data callback on each of two input channels of one
\* transport: the polled loop. Its hooks and callbacks may throw.
PollConfigs ==
    {[dispatch |-> "data", inputKeys |-> <<"data", "meta">>, transport |-> "zeromq",
      chans |-> <<ChanCfg("data", 0, "bind", Live, "DEFAULT"),
                  ChanCfg("meta", 0, "bind", Live, "DEFAULT")>>,
      initTimeout |-> MaxInitTimeout, maxIterations |-> 0, userThrows |-> TRUE,
      conditionalRunForever |-> FALSE]}

\* A device like the Sink whose one bound sub-channel cannot be bound (nobody
\* resolves the host of its endpoint).
BindFailConfigs ==
    {[dispatch |-> "sink", inputKeys |-> <<"data">>, transport |-> "zeromq",
      chans |-> <<ChanCfg("data", 0, "bind", Dead, "DEFAULT")>>,
      initTimeout |-> MaxInitTimeout, maxIterations |-> 0, userThrows |-> FALSE,
      conditionalRunForever |-> FALSE]}

DataConfigs == SinkConfigs \cup PollConfigs \cup BindFailConfigs

\* A device with a data callback on each of two input channels of different
\* transports: one poller thread per transport. Hooks, callbacks and
\* transport calls may throw.
MultiConfigs ==
    {[dispatch |-> "data", inputKeys |-> <<"data", "meta">>, transport |-> "zeromq",
      chans |-> <<ChanCfg("data", 0, "bind", Live, "zeromq"),
                  ChanCfg("meta", 0, "bind", Live, "shmem")>>,
      initTimeout |-> MaxInitTimeout, maxIterations |-> 0, userThrows |-> TRUE,
      conditionalRunForever |-> FALSE]}

\* A device without channels whose configured default transport is not the
\* built-in one, with user threads that ask for transports on their own.
PoolConfigs ==
    {[dispatch |-> "cond", inputKeys |-> <<>>, transport |-> "shmem",
      chans |-> <<>>,
      initTimeout |-> 0, maxIterations |-> 0, userThrows |-> TRUE,
      conditionalRunForever |-> FALSE]}

VARIABLES
    config,             \* the configuration the device was started with
    cfgAddress,         \* Config: chans.<name>.<i>.address, by <<name, i>>
    fsmState,           \* the state machine's state (moves when a transition is accepted)
    fNewState,          \* the pending-transition slot: the state to enter
    fNewStatePending,   \* a transition is queued and not yet consumed
    fState,             \* the state the worker is handling
    subscribed,         \* the "device" transition subscriber is registered
    pc,                 \* the worker thread's position
    fStateQueue,        \* the states pushed by the handler (its last two entries)
    fTransports,        \* the transport pool: the kinds that have an instance
    interrupted,        \* per kind: the transport is in the interrupted state
    fDefaultTransportType,
    fInitializationTimeoutInS,
    fChannels,          \* the channel map: name -> sub-channels (none: no such channel)
    fUninitializedBindingChannels,
    fUninitializedConnectingChannels,
    numAttempts,        \* ConnectWrapper's local counter
    attachCalls,        \* AttachChannels calls made by the current Binding or Connecting handler
    proceed,            \* the dispatch loop's local flag
    scan,               \* the polled loop's place among the sub-channels (0: not scanning)
    fMaxIterations,     \* Sink
    fNumIterations,     \* Sink
    calls,              \* data callback invocations so far
    run,                \* what the current (or last) Running handler has done
    fMultitransportProceed,
    fMultitransportMutex, \* the poller thread that holds it, or "free"
    poller,             \* per transport kind: its poller thread's position
    pollerScan,         \* per transport kind: its place among its sub-channels
    ahead,              \* transitions accepted since the worker last took a state
    skipped,            \* the state the worker took last was written over a pending one
    fTransportMtx,      \* the thread in AddTransport that holds it, or "free"
    factory,            \* per kind: the pooled transport factory instance (0: none)
    adder,              \* per user thread: its AddTransport call
    rateLogger,         \* the rate-logger thread: its position and locals
    messagesRx,         \* the rate-logged sub-channel's counter of received messages
    clock,              \* the time, in milliseconds
    rateObs             \* the rate logger as seen from outside since its last log line

vars ==
    <<config, cfgAddress, fsmState, fNewState, fNewStatePending, fState,
      subscribed, pc, fStateQueue, fTransports, interrupted,
      fDefaultTransportType, fInitializationTimeoutInS, fChannels,
      fUninitializedBindingChannels, fUninitializedConnectingChannels,
      numAttempts, attachCalls, proceed, scan, fMaxIterations, fNumIterations,
      calls, run, fMultitransportProceed, fMultitransportMutex, poller,
      pollerScan, ahead, skipped, fTransportMtx, factory, adder, rateLogger,
      messagesRx, clock, rateObs>>

smVars == <<fsmState, fNewState, fNewStatePending, ahead>>

cfgVars == <<config, cfgAddress>>

poolVars == <<fTransports, interrupted>>

chanVars ==
    <<fChannels, fUninitializedBindingChannels, fUninitializedConnectingChannels>>

devVars == <<fDefaultTransportType, fInitializationTimeoutInS>>

connVars == <<numAttempts, attachCalls>>

loopVars == <<proceed, scan>>

sinkVars == <<fMaxIterations, fNumIterations, calls>>

obsVars == <<fStateQueue, skipped>>

mtVars == <<fMultitransportProceed, fMultitransportMutex, poller, pollerScan>>

addVars == <<fTransportMtx, factory, adder>>

rateVars == <<rateLogger, messagesRx, clock, rateObs>>

\* chans.<name>.<i>.rateLogging of the device's sub-channel (0: no rate logging).
RateLogging == IF "rateLogging" \in DOMAIN config THEN config.rateLogging ELSE 0

\* No log line.
NoLine == [msgs |-> 0, ms |-> 0, wakeups |-> 0, elapsed |-> 0, increase |-> 0]

\* No rate-logger thread.
NoLogger == [pc |-> "none", intervalCounter |-> 0, msgIn |-> 0, t0 |-> 0]

\* Nothing seen of the rate logger: no wake-up, no log line.
NoRateObs == [wakeups |-> 0, since |-> 0, rx |-> 0, line |-> NoLine]

\* The user threads that call AddTransport on their own.
Callers == {"user1", "user2"}

\* A user thread outside AddTransport, holding what its last call returned.
NoCall(result) ==
    [pc |-> "idle", arg |-> "DEFAULT", transport |-> "DEFAULT", result |-> result]

\* What the Running phase has seen so far, from the moment the worker takes
\* the Running state: the handler's own requests and hooks, and the external
\* transitions accepted meanwhile (ext counts them up to two, extStop tells
\* that the first of them was a Stop); whether a Receive has come back
\* negative with no transition pending (negRecv), and whether a data
\* callback was given a message of a negative Receive (cbOnNeg).
RunInit ==
    [active |-> FALSE, threw |-> FALSE, efReq |-> 0, stopReq |-> 0,
     runCalled |-> FALSE, postRun |-> FALSE, called |-> FALSE, cbFalse |-> FALSE,
     ext |-> 0, extStop |-> FALSE, negRecv |-> FALSE, cbOnNeg |-> FALSE]

\* An exception leaves the Running handler.
Raise(r) == [r EXCEPT !.threw = TRUE]

\* The outcomes of a user hook or of a transport call that may fail.
HookOutcomes == IF config.userThrows THEN {"ok", "throw"} ELSE {"ok"}

\* ---------------------------------------------------------- transport pool
\* InterruptTransports with a loop that starts one past the first transport.
InterruptTransportsFromSecond ==
    [k \in Kinds |-> IF k \in fTransports /\ k # (CHOOSE x \in fTransports : TRUE)
                     THEN TRUE ELSE interrupted[k]]

\* Device::InterruptTransports: Interrupt() on every pooled transport.
InterruptTransports ==
    [k \in Kinds |-> IF k \in fTransports THEN TRUE ELSE interrupted[k]]

\* ResumeTransports with a loop that starts one past the first transport.
ResumeTransportsFromSecond ==
    [k \in Kinds |-> IF k \in fTransports /\ k # (CHOOSE x \in fTransports : TRUE)
                     THEN FALSE ELSE interrupted[k]]

\* Device::ResumeTransports: Resume() on every pooled transport.
ResumeTransports ==
    [k \in Kinds |-> IF k \in fTransports THEN FALSE ELSE interrupted[k]]

\* Device::AddTransport on the pool `pool`: DEFAULT is the device default,
\* a kind that has an instance keeps it, a new one is created.
ResolveKind(transport, default) ==
    IF transport = "DEFAULT" THEN default ELSE transport

AddTransport(pool, transport, default) ==
    pool \cup {ResolveKind(transport, default)}

\* The instances in use: pooled, or held by a user thread.
InUse ==
    {factory[k] : k \in Kinds} \cup {adder[c].result : c \in Callers}

\* TransportFactory::CreateTransportFactory: a new instance, one that is not
\* any of those in `used`.
CreateTransportFactory(used) == CHOOSE i \in 1..(Cardinality(used) + 1) : i \notin used

\* The instances after the kinds of `pool` that have none were given a new
\* one each.
RECURSIVE CreateFor(_, _)
CreateFor(pool, f) ==
    IF \A k \in pool : f[k] # 0 THEN f
    ELSE LET k == CHOOSE x \in pool : f[x] = 0
             used == {f[x] : x \in Kinds} \cup {adder[c].result : c \in Callers}
         IN  CreateFor(pool, [f EXCEPT ![k] = CreateTransportFactory(used)])

\* Device::AddTransport called by user thread c, step by step.
\* AddTransportLock that does not wait for the mutex.
AddTransportLockNoWait(c, t) ==
    /\ pc # "terminated"
    /\ adder[c].pc = "idle"
    /\ adder' = [adder EXCEPT ![c] = [pc |-> "find", arg |-> t,
                     transport |-> ResolveKind(t, fDefaultTransportType),
                     result |-> 0]]
    /\ UNCHANGED <<fTransportMtx, factory, rateVars, mtVars, cfgVars, smVars, fState, subscribed,
                   pc, obsVars, poolVars, devVars, chanVars, connVars, loopVars,
                   sinkVars, run>>

\* lock_guard<mutex> lock(fTransportMtx); DEFAULT is the device default.
AddTransportLock(c, t) ==
    /\ pc # "terminated"
    /\ adder[c].pc = "idle"
    /\ fTransportMtx = "free"
    /\ fTransportMtx' = c
    /\ adder' = [adder EXCEPT ![c] = [pc |-> "find", arg |-> t,
                     transport |-> ResolveKind(t, fDefaultTransportType),
                     result |-> 0]]
    /\ UNCHANGED <<factory, rateVars, mtVars, cfgVars, smVars, fState, subscribed, pc, obsVars,
                   poolVars, devVars, chanVars, connVars, loopVars, sinkVars, run>>

\* auto i = fTransports.find(transport); if (i == fTransports.end())
AddTransportFind(c) ==
    /\ adder[c].pc = "find"
    /\ adder' = [adder EXCEPT ![c].pc = IF adder[c].transport \in fTransports
                                        THEN "reuse" ELSE "insert"]
    /\ UNCHANGED <<fTransportMtx, factory, rateVars, mtVars, cfgVars, smVars, fState, subscribed,
                   pc, obsVars, poolVars, devVars, chanVars, connVars, loopVars,
                   sinkVars, run>>

\* A new factory is created, inserted (insert leaves an instance that is
\* already there) and returned; the lock is released.
AddTransportInsert(c) ==
    /\ adder[c].pc = "insert"
    /\ LET k == adder[c].transport
           tr == CreateTransportFactory(InUse)
       IN  /\ fTransports' = fTransports \cup {k}
           /\ factory' = IF k \in fTransports THEN factory ELSE [factory EXCEPT ![k] = tr]
           /\ adder' = [adder EXCEPT ![c] = NoCall(tr)]
    /\ fTransportMtx' = "free"
    /\ UNCHANGED <<rateVars, mtVars, cfgVars, smVars, fState, subscribed, pc, obsVars,
                   interrupted, devVars, chanVars, connVars, loopVars, sinkVars, run>>

\* The instance that is there is returned; the lock is released.
AddTransportReuse(c) ==
    /\ adder[c].pc = "reuse"
    /\ adder' = [adder EXCEPT ![c] = NoCall(factory[adder[c].transport])]
    /\ fTransportMtx' = "free"
    /\ UNCHANGED <<factory, rateVars, mtVars, cfgVars, smVars, fState, subscribed, pc, obsVars,
                   poolVars, devVars, chanVars, connVars, loopVars, sinkVars, run>>

\* ------------------------------------------------- state machine operations
\* A transition accepted by the state machine: the machine moves at once,
\* the target fills the pending slot, the transition subscribers run.
NotifyNewTransition ==
    IF subscribed THEN InterruptTransports ELSE interrupted

Accept(t) ==
    /\ fsmState' = Target(fsmState, t)
    /\ fNewState' = Target(fsmState, t)
    /\ fNewStatePending' = TRUE
    /\ ahead' = ahead + 1
    /\ subscribed => fTransportMtx = "free"
    /\ interrupted' = NotifyNewTransition

\* ChangeState: an invalid transition changes nothing.
ChangeState(t) ==
    IF IsValid(fsmState, t)
    THEN Accept(t)
    ELSE UNCHANGED <<smVars, interrupted>>

NewStatePending == fNewStatePending

\* ------------------------------------------------------------------ channels
\* A sub-channel of the channel map, built from its configuration.
SubChannel(c) ==
    [name |-> c.name, idx |-> c.idx, method |-> c.method,
     address |-> c.address, transport |-> c.transport, attached |-> FALSE]

\* An entry of a working list: a pointer to the sub-channel at position pos
\* of the vector fChannels[name]; stale once that vector is gone or has been
\* reallocated (the pointer dangles).
Entry(name, pos) == [name |-> name, pos |-> pos, stale |-> FALSE]

MarkStale(list) == [i \in 1..Len(list) |-> [list[i] EXCEPT !.stale = TRUE]]

\* Channel::Validate: the address is there and well-formed.
Validate(ch) == ch.address # Unspecified /\ ch.address # <<>>

\* tools::getIpFromHostname: the IP address of a host, "" where it has none.
getIpFromHostname(host) ==
    CASE host = "live" -> "10.0.0.1"
      [] host \in IpAddresses -> host
      [] OTHER -> ""

\* The ports that are taken on this machine when the device starts.
PortsTaken == IF "portsTaken" \in DOMAIN config THEN config.portsTaken ELSE {}

\* Channel::BindEndpoint(address): binds the port asked for, or the next one
\* where that one is taken, and says so in `address`.
BoundPort(port) == IF port \in PortsTaken THEN port + 1 ELSE port

\* An attach that writes the endpoint back without its modifier.
AttachEndpointDropsModifier(method, endpoint) ==
    LET bind == CASE endpoint.mod \in {"+", ">"} -> FALSE
                  [] endpoint.mod = "@" -> TRUE
                  [] OTHER -> method = "bind"
        resolve == endpoint.scheme = "tcp" /\ ~(bind /\ endpoint.host = "*")
        resolvedHost == getIpFromHostname(endpoint.host)
    IN  IF resolve /\ resolvedHost = ""
        THEN [ok |-> FALSE, endpoint |-> endpoint]
        ELSE [ok |-> TRUE,
              endpoint |-> [mod |-> "",
                            scheme |-> endpoint.scheme,
                            host |-> IF resolve THEN resolvedHost ELSE endpoint.host,
                            port |-> IF bind THEN BoundPort(endpoint.port)
                                     ELSE endpoint.port]]

\* One turn of AttachChannel's loop over the endpoints: whether the endpoint
\* attached, and the endpoint as it is written back.
AttachEndpoint(method, endpoint) ==
    LET connectionModifier == endpoint.mod \in Modifiers
        bind == CASE endpoint.mod \in {"+", ">"} -> FALSE
                  [] endpoint.mod = "@" -> TRUE
                  [] OTHER -> method = "bind"
        resolve == endpoint.scheme = "tcp" /\ ~(bind /\ endpoint.host = "*")
        resolvedHost == getIpFromHostname(endpoint.host)
        address == [mod |-> "",
                    scheme |-> endpoint.scheme,
                    host |-> IF resolve THEN resolvedHost ELSE endpoint.host,
                    port |-> IF bind THEN BoundPort(endpoint.port) ELSE endpoint.port]
    IN  IF resolve /\ resolvedHost = ""
        THEN [ok |-> FALSE, endpoint |-> endpoint]
        ELSE [ok |-> TRUE,
              endpoint |-> [address EXCEPT !.mod = IF connectionModifier
                                                  THEN (IF bind THEN "@" ELSE "+")
                                                  ELSE ""]]

\* Every endpoint of the address attaches.
Attachable(method, address) ==
    \A i \in 1..Len(address) : AttachEndpoint(method, address[i]).ok

\* Device::AttachChannel: whether the channel attached (every endpoint did),
\* and the address it has afterwards: the endpoints as written back when
\* all attached, its old address when one failed.
AttachChannel(ch) ==
    IF Attachable(ch.method, ch.address)
    THEN [ok |-> TRUE,
          address |-> [i \in 1..Len(ch.address) |->
                          AttachEndpoint(ch.method, ch.address[i]).endpoint]]
    ELSE [ok |-> FALSE, address |-> ch.address]

\* The sub-channels of a channel map, in total.
RECURSIVE CountSubChannels(_, _)
CountSubChannels(chans, names) ==
    IF names = {} THEN 0
    ELSE LET n == CHOOSE x \in names : TRUE
         IN  Len(chans[n]) + CountSubChannels(chans, names \ {n})

RemoveAt(list, i) == [j \in 1..(Len(list) - 1) |-> IF j < i THEN list[j] ELSE list[j + 1]]

\* Device::AttachChannels from position i of the list on. st carries the
\* list, the channel map and the config addresses; the result is the set of
\* possible outcomes: a dangling entry is undefined behaviour, so it may be
\* erased or kept.
RECURSIVE AttachFrom(_, _)
AttachFrom(i, st) ==
    IF i > Len(st.list) THEN {st}
    ELSE LET e == st.list[i]
             erased == [st EXCEPT !.list = RemoveAt(st.list, i)]
         IN  IF e.stale
             THEN AttachFrom(i, erased) \cup AttachFrom(i + 1, st)
             ELSE LET ch == st.chans[e.name][e.pos]
                      r == AttachChannel(ch)
                      key == <<ch.name, ch.idx>>
                      done == [erased EXCEPT
                                 !.chans[e.name][e.pos].attached = TRUE,
                                 !.chans[e.name][e.pos].address = r.address,
                                 !.cfg[key] = IF r.address # ch.address
                                              THEN r.address ELSE @]
                  IN  IF Validate(ch)
                      THEN IF r.ok
                           THEN AttachFrom(i, done)
                           ELSE AttachFrom(i + 1, st)
                      ELSE AttachFrom(i + 1, st)

AttachChannels(list) ==
    AttachFrom(1, [list |-> list, chans |-> fChannels, cfg |-> cfgAddress])

\* ------------------------------------------------------------ initial state
\* The state after Device::Device: the machine started in Idle, the
\* subscriber and hooks registered, nothing built yet.
InitWith(cfgs) ==
    /\ config \in cfgs
    /\ cfgAddress = [k \in {<<config.chans[i].name, config.chans[i].idx>> :
                              i \in 1..Len(config.chans)} |->
                        (CHOOSE c \in {config.chans[i] : i \in 1..Len(config.chans)} :
                            <<c.name, c.idx>> = k).address]
    /\ fsmState = "Idle"
    /\ fNewState = "Idle"
    /\ fNewStatePending = FALSE
    /\ fState = "Idle"
    /\ subscribed = TRUE
    /\ pc = "wait"
    /\ fStateQueue = <<>>
    /\ fTransports = {}
    /\ interrupted = [k \in Kinds |-> FALSE]
    /\ fDefaultTransportType = "zeromq"
    /\ fInitializationTimeoutInS = 120
    /\ fChannels = [n \in ChannelNames |-> <<>>]
    /\ fUninitializedBindingChannels = <<>>
    /\ fUninitializedConnectingChannels = <<>>
    /\ numAttempts = 0
    /\ attachCalls = 0
    /\ proceed = FALSE
    /\ scan = 0
    /\ fMaxIterations = 0
    /\ fNumIterations = 0
    /\ calls = 0
    /\ run = RunInit
    /\ fMultitransportProceed = FALSE
    /\ fMultitransportMutex = "free"
    /\ poller = [k \in Kinds |-> "none"]
    /\ pollerScan = [k \in Kinds |-> 0]
    /\ ahead = 0
    /\ skipped = FALSE
    /\ fTransportMtx = "free"
    /\ factory = [k \in Kinds |-> 0]
    /\ adder = [c \in Callers |-> NoCall(0)]
    /\ rateLogger = NoLogger
    /\ messagesRx = 0
    /\ clock = 0
    /\ rateObs = NoRateObs

Init == InitWith(CondConfigs)

\* ------------------------------------------------------- the outside world
\* At most n entries are left over in the working lists, and as many
\* sub-channels in the map.
RoomForInit(n) ==
    /\ Len(fUninitializedBindingChannels) + Len(fUninitializedConnectingChannels)
         <= n
    /\ CountSubChannels(fChannels, ChannelNames) <= n

\* A controller (any thread) requests transition t. A new InitDevice is
\* left out once more than n entries are left over.
Request(t, n) ==
    /\ pc # "terminated"
    /\ ahead < MaxAhead
    /\ t = "InitDevice" => RoomForInit(n)
    /\ ChangeState(t)
    /\ run' = IF run.active /\ IsValid(fsmState, t)
              THEN [run EXCEPT !.ext = IF @ < 2 THEN @ + 1 ELSE @,
                               !.extStop = @ \/ (run.ext = 0 /\ t = "Stop")]
              ELSE run
    /\ UNCHANGED <<addVars, rateVars, mtVars, cfgVars, fState, subscribed, pc, obsVars, fTransports,
                   devVars, chanVars, connVars, loopVars, sinkVars>>

ExternalRequest(t) == Request(t, MaxLeftover)

\* Somebody rewrites chans.<name>.<i>.address in the config.
ConfigUpdate(k, a) ==
    /\ pc # "terminated"
    /\ k \in DOMAIN cfgAddress
    /\ cfgAddress[k] # a
    /\ cfgAddress' = [cfgAddress EXCEPT ![k] = a]
    /\ UNCHANGED <<addVars, rateVars, mtVars, config, smVars, fState, subscribed, pc, obsVars, poolVars,
                   devVars, chanVars, connVars, loopVars, sinkVars, run>>

\* Device::~Device, once the worker has left its loop:
\* UnsubscribeFromNewTransition("device").
Destroy ==
    /\ pc = "stopped"
    /\ subscribed
    /\ subscribed' = FALSE
    /\ UNCHANGED <<addVars, rateVars, mtVars, cfgVars, smVars, fState, pc, obsVars, poolVars, devVars,
                   chanVars, connVars, loopVars, sinkVars, run>>

\* ------------------------------------------------------- the worker thread
\* The worker takes the pending state.
WorkerConsume ==
    /\ pc = "wait"
    /\ fNewStatePending
    /\ fState' = fNewState
    /\ fNewStatePending' = FALSE
    /\ ahead' = 0
    /\ skipped' = (ahead > 1)
    /\ pc' = "prepare"
    /\ run' = [RunInit EXCEPT !.active = (fNewState = "Running")]
    /\ UNCHANGED <<addVars, rateVars, mtVars, cfgVars, fsmState, fNewState, subscribed, fStateQueue,
                   poolVars, devVars, chanVars, connVars, loopVars, sinkVars>>

\* The PrepareState hook: ResumeTransports().
PrepareState ==
    /\ pc = "prepare"
    /\ fTransportMtx = "free"
    /\ interrupted' = ResumeTransports
    /\ pc' = "handle"
    /\ UNCHANGED <<addVars, rateVars, mtVars, cfgVars, smVars, fState, subscribed, obsVars, fTransports,
                   devVars, chanVars, connVars, loopVars, sinkVars, run>>

\* fStateQueue.Push(state), keeping the last two entries.
Push(q, s) == IF Len(q) < 2 THEN Append(q, s) ELSE <<q[2], s>>

\* The dispatch with a case for Error that resets the device.
WrapperResetsOnError(state) ==
    CASE state = "InitializingDevice" -> "init_wait"
      [] state = "Binding" -> "bind"
      [] state = "Connecting" -> "conn_first"
      [] state = "InitializingTask" -> "itask"
      [] state = "Running" -> "run_pre"
      [] state = "ResettingTask" -> "rtask"
      [] state \in {"ResettingDevice", "Error"} -> "reset"
      [] state = "Exiting" -> "exit"
      [] OTHER -> "ret"

\* The wrapper the HandleStates handler dispatches to.
Wrapper(state) ==
    CASE state = "InitializingDevice" -> "init_wait"
      [] state = "Binding" -> "bind"
      [] state = "Connecting" -> "conn_first"
      [] state = "InitializingTask" -> "itask"
      [] state = "Running" -> "run_pre"
      [] state = "ResettingTask" -> "rtask"
      [] state = "ResettingDevice" -> "reset"
      [] state = "Exiting" -> "exit"
      [] OTHER -> "ret"

\* HandleStates pushing the state machine's latest state, not its argument.
HandleStatesLatest ==
    /\ pc = "handle"
    /\ fStateQueue' = Push(fStateQueue, fsmState)
    /\ pc' = Wrapper(fState)
    /\ UNCHANGED <<addVars, rateVars, mtVars, cfgVars, smVars, fState, subscribed, skipped, poolVars,
                   devVars, chanVars, connVars, loopVars, sinkVars, run>>

\* The HandleStates handler: push the state, enter its wrapper.
HandleStates ==
    /\ pc = "handle"
    /\ fStateQueue' = Push(fStateQueue, fState)
    /\ pc' = Wrapper(fState)
    /\ UNCHANGED <<addVars, rateVars, mtVars, cfgVars, smVars, fState, subscribed, skipped, poolVars,
                   devVars, chanVars, connVars, loopVars, sinkVars, run>>

\* joinRateLogger, run when RunWrapper is left either way: the handler is
\* left once the rate-logger thread, if there is one, has ended.
LoggerJoined == rateLogger.pc \in {"none", "done"}

\* The handler's locals go out of scope with it.
LeaveHandler ==
    /\ numAttempts' = 0
    /\ attachCalls' = 0
    /\ proceed' = FALSE
    /\ scan' = 0

\* The handler returned: the worker waits for the next state, or leaves its
\* loop after Exiting or Error.
WorkerReturn ==
    /\ pc = "ret"
    /\ LoggerJoined
    /\ pc' = IF fState \in Terminal THEN "stopped" ELSE "wait"
    /\ run' = [run EXCEPT !.active = FALSE]
    /\ LeaveHandler
    /\ rateLogger' = NoLogger
    /\ UNCHANGED <<addVars, messagesRx, clock, rateObs, mtVars, cfgVars, smVars, fState, subscribed, obsVars, poolVars,
                   devVars, chanVars, sinkVars>>

\* The handler left by exception: the worker boundary puts the machine in
\* Error (it requests ErrorFound) and the worker leaves its loop.
WorkerThrown ==
    /\ pc = "thrown"
    /\ LoggerJoined
    /\ fState' = "Error"
    /\ ChangeState("ErrorFound")
    /\ pc' = "stopped"
    /\ run' = [run EXCEPT !.active = FALSE]
    /\ LeaveHandler
    /\ rateLogger' = NoLogger
    /\ UNCHANGED <<addVars, messagesRx, clock, rateObs, mtVars, cfgVars, subscribed, obsVars, fTransports, devVars,
                   chanVars, sinkVars>>

\* The check that takes every state for pending: no Auto is ever requested.
AutoCheckSkips ==
    /\ pc = "auto_check"
    /\ pc' = "ret"
    /\ UNCHANGED <<addVars, rateVars, mtVars, cfgVars, smVars, fState, subscribed, obsVars, poolVars,
                   devVars, chanVars, connVars, loopVars, sinkVars, run>>

\* `if (!NewStatePending()) ChangeStateOrThrow(Transition::Auto)`: the check ...
AutoCheck ==
    /\ pc = "auto_check"
    /\ pc' = IF NewStatePending THEN "ret" ELSE "auto_req"
    /\ UNCHANGED <<addVars, rateVars, mtVars, cfgVars, smVars, fState, subscribed, obsVars, poolVars,
                   devVars, chanVars, connVars, loopVars, sinkVars, run>>

\* ... and the request, which throws when Auto is not valid any more.
AutoRequest ==
    /\ pc = "auto_req"
    /\ ChangeState("Auto")
    /\ pc' = IF IsValid(fsmState, "Auto") THEN "ret" ELSE "thrown"
    /\ UNCHANGED <<addVars, rateVars, mtVars, cfgVars, fState, subscribed, obsVars, fTransports, devVars,
                   chanVars, connVars, loopVars, sinkVars, run>>

\* ------------------------------------------------------------- InitWrapper
\* fStateMachine.WaitForPendingState()
InitWait ==
    /\ pc = "init_wait"
    /\ NewStatePending
    /\ pc' = "init_body"
    /\ UNCHANGED <<addVars, rateVars, mtVars, cfgVars, smVars, fState, subscribed, obsVars, poolVars,
                   devVars, chanVars, connVars, loopVars, sinkVars, run>>

\* The channel containers after the configured sub-channels were added
\* (emplace_back on GetChannels()[name]), with the configured values as the
\* config holds them now.
RECURSIVE BuildChannels(_, _)
BuildChannels(cfgs, chans) ==
    IF cfgs = <<>> THEN chans
    ELSE LET c == Head(cfgs)
             sub == SubChannel([c EXCEPT !.address = cfgAddress[<<c.name, c.idx>>]])
         IN  BuildChannels(Tail(cfgs), [chans EXCEPT ![c.name] = Append(@, sub)])

\* Pointers into a vector that was not empty when it grew may dangle.
Invalidate(list, chans) ==
    [i \in 1..Len(list) |->
        IF Len(chans[list[i].name]) > Len(fChannels[list[i].name])
           /\ Len(fChannels[list[i].name]) > 0
        THEN [list[i] EXCEPT !.stale = TRUE] ELSE list[i]]

\* The entries left dangling when the channel map was cleared: each points
\* to freed storage, which the new sub-channels may have been given, so it
\* may point to the new sub-channel at its place, or dangle on.
Realias(list, chans) ==
    {[i \in 1..Len(list) |-> IF i \in S THEN [list[i] EXCEPT !.stale = FALSE]
                             ELSE list[i]]
       : S \in SUBSET {i \in 1..Len(list) :
                         list[i].stale /\ list[i].pos <= Len(chans[list[i].name])}}

\* Every sub-channel of the map, channel by channel.
RECURSIVE AllSubChannels(_, _)
AllSubChannels(chans, names) ==
    IF names = <<>> THEN <<>>
    ELSE [i \in 1..Len(chans[Head(names)]) |-> Entry(Head(names), i)]
         \o AllSubChannels(chans, Tail(names))

\* The address has a '@', '+' or '>' in it (find_first_of("@+>")).
HasModifier(address) == \E i \in 1..Len(address) : address[i].mod \in Modifiers

\* "Fill the uninitialized channel containers": per sub-channel, its
\* transport, the bind address where none is given, and its working list;
\* a sub-channel with neither method nor modifier throws.
RECURSIVE FillLists(_, _)
FillLists(todo, st) ==
    IF todo = <<>> \/ st.threw THEN {st}
    ELSE LET e == Head(todo)
             ch == st.chans[e.name][e.pos]
             added == [st EXCEPT
                         !.pool = AddTransport(@, ch.transport, config.transport),
                         !.chans[e.name][e.pos].transport =
                             ResolveKind(ch.transport, config.transport)]
         IN  IF ch.method = "bind"
             THEN UNION {FillLists(Tail(todo),
                             [added EXCEPT !.chans[e.name][e.pos].address = a,
                                           !.bind = Append(@, e)])
                           : a \in IF ch.address = Unspecified \/ ch.address = <<>>
                                   THEN {Tcp("10.0.0.2"), Tcp("*")}
                                   ELSE {ch.address}}
             ELSE IF ch.method = "connect" \/ HasModifier(ch.address)
                  THEN FillLists(Tail(todo), [added EXCEPT !.conn = Append(@, e)])
                  ELSE {[added EXCEPT !.threw = TRUE]}

\* Init(), the user hook; rate, init-timeout and the default transport are
\* read from the config (an unknown transport name throws).
InitBody ==
    /\ pc = "init_body"
    /\ \E user \in HookOutcomes :
         IF user = "throw"
         THEN /\ pc' = "thrown"
              /\ UNCHANGED devVars
         ELSE /\ fInitializationTimeoutInS' = config.initTimeout
              /\ IF config.transport \notin TransportNames
                 THEN /\ pc' = "thrown"
                      /\ UNCHANGED fDefaultTransportType
                 ELSE /\ fDefaultTransportType' = config.transport
                      /\ pc' = "init_chans"
    /\ UNCHANGED <<addVars, rateVars, mtVars, cfgVars, smVars, fState, subscribed, obsVars,
                   poolVars, chanVars, connVars, loopVars, sinkVars, run>>

\* The channel containers are built, the default transport is added, the
\* working lists are filled.
InitChannels ==
    /\ pc = "init_chans"
    /\ fTransportMtx = "free"
    /\ LET built == BuildChannels(config.chans, fChannels)
       IN  \E b \in Realias(fUninitializedBindingChannels, built),
              c \in Realias(fUninitializedConnectingChannels, built) :
           \E st \in FillLists(
                  AllSubChannels(built, ChannelOrder),
                  [chans |-> built,
                   bind |-> Invalidate(b, built),
                   conn |-> Invalidate(c, built),
                   pool |-> AddTransport(fTransports, fDefaultTransportType,
                                         fDefaultTransportType),
                   threw |-> FALSE]) :
             /\ fChannels' = st.chans
             /\ fUninitializedBindingChannels' = st.bind
             /\ fUninitializedConnectingChannels' = st.conn
             /\ fTransports' = st.pool
             /\ factory' = CreateFor(st.pool, factory)
             /\ pc' = IF st.threw THEN "thrown" ELSE "ret"
    /\ UNCHANGED <<fTransportMtx, adder, rateVars, mtVars, cfgVars, smVars, fState, subscribed,
                   obsVars, interrupted, devVars, connVars, loopVars, sinkVars, run>>

\* ------------------------------------------------------------- BindWrapper
\* BindWrapper going on to Bind() whatever is left in the list.
BindWrapperIgnoresLeft ==
    /\ pc = "bind"
    /\ \E st \in AttachChannels(fUninitializedBindingChannels) :
         /\ fUninitializedBindingChannels' = st.list
         /\ fChannels' = st.chans
         /\ cfgAddress' = st.cfg
    /\ pc' = "bind_user"
    /\ attachCalls' = 1
    /\ UNCHANGED <<addVars, rateVars, mtVars, config, smVars, fState, subscribed, obsVars, poolVars,
                   devVars, fUninitializedConnectingChannels, numAttempts,
                   loopVars, sinkVars, run>>

\* One pass over the binding list; anything left is fatal.
BindWrapper ==
    /\ pc = "bind"
    /\ \E st \in AttachChannels(fUninitializedBindingChannels) :
         /\ fUninitializedBindingChannels' = st.list
         /\ fChannels' = st.chans
         /\ cfgAddress' = st.cfg
         /\ pc' = IF st.list # <<>> THEN "thrown" ELSE "bind_user"
    /\ attachCalls' = 1
    /\ UNCHANGED <<addVars, rateVars, mtVars, config, smVars, fState, subscribed, obsVars, poolVars,
                   devVars, fUninitializedConnectingChannels, numAttempts,
                   loopVars, sinkVars, run>>

\* Bind(), the user hook.
BindUser ==
    /\ pc = "bind_user"
    /\ \E user \in HookOutcomes :
         pc' = IF user = "throw" THEN "thrown" ELSE "auto_check"
    /\ UNCHANGED <<addVars, rateVars, mtVars, cfgVars, smVars, fState, subscribed, obsVars, poolVars,
                   devVars, chanVars, connVars, loopVars, sinkVars, run>>

\* ---------------------------------------------------------- ConnectWrapper
\* auto maxAttempts = fInitializationTimeoutInS * 1000 / sleepTimeInMS
maxAttempts == (fInitializationTimeoutInS * msPerSecond) \div sleepTimeInMS

\* int numAttempts = 1; the first attempt.
ConnectFirst ==
    /\ pc = "conn_first"
    /\ numAttempts' = 1
    /\ \E st \in AttachChannels(fUninitializedConnectingChannels) :
         /\ fUninitializedConnectingChannels' = st.list
         /\ fChannels' = st.chans
         /\ cfgAddress' = st.cfg
    /\ attachCalls' = 1
    /\ pc' = "conn_loop"
    /\ UNCHANGED <<addVars, rateVars, mtVars, config, smVars, fState, subscribed, obsVars, poolVars,
                   devVars, fUninitializedBindingChannels, loopVars, sinkVars, run>>

\* while (!fUninitializedConnectingChannels.empty() && !NewStatePending())
ConnectLoop ==
    /\ pc = "conn_loop"
    /\ pc' = IF fUninitializedConnectingChannels # <<>> /\ ~NewStatePending
             THEN "conn_retry" ELSE "conn_user"
    /\ UNCHANGED <<addVars, rateVars, mtVars, cfgVars, smVars, fState, subscribed, obsVars, poolVars,
                   devVars, chanVars, connVars, loopVars, sinkVars, run>>

\* The addresses re-read from the config: UpdateAddress where it changed.
RECURSIVE UpdateAddresses(_, _)
UpdateAddresses(list, chans) ==
    IF list = <<>> THEN chans
    ELSE LET e == Head(list)
         IN  IF e.stale THEN UpdateAddresses(Tail(list), chans)
             ELSE LET ch == chans[e.name][e.pos]
                      newAddress == cfgAddress[<<ch.name, ch.idx>>]
                  IN  UpdateAddresses(Tail(list),
                          IF newAddress # ch.address
                          THEN [chans EXCEPT ![e.name][e.pos].address = newAddress]
                          ELSE chans)

\* ConnectRetry attaching again without re-reading the addresses.
ConnectRetryNoReread ==
    /\ pc = "conn_retry"
    /\ numAttempts' = numAttempts + 1
    /\ IF numAttempts > maxAttempts
       THEN /\ pc' = "thrown"
            /\ UNCHANGED <<cfgAddress, chanVars, attachCalls>>
       ELSE /\ \E st \in AttachChannels(fUninitializedConnectingChannels) :
                 /\ fUninitializedConnectingChannels' = st.list
                 /\ fChannels' = st.chans
                 /\ cfgAddress' = st.cfg
            /\ attachCalls' = attachCalls + 1
            /\ pc' = "conn_loop"
    /\ UNCHANGED <<addVars, rateVars, mtVars, config, smVars, fState, subscribed, obsVars, poolVars,
                   devVars, fUninitializedBindingChannels, loopVars, sinkVars, run>>

\* ConnectRetry leaving the loop (break) where the code throws.
ConnectRetryBreaks ==
    /\ pc = "conn_retry"
    /\ numAttempts' = numAttempts + 1
    /\ LET updated == UpdateAddresses(fUninitializedConnectingChannels, fChannels)
       IN  IF numAttempts > maxAttempts
           THEN /\ fChannels' = updated
                /\ pc' = "conn_user"
                /\ UNCHANGED <<cfgAddress, fUninitializedConnectingChannels, attachCalls>>
           ELSE /\ \E st \in AttachFrom(1, [list |-> fUninitializedConnectingChannels,
                                            chans |-> updated, cfg |-> cfgAddress]) :
                     /\ fUninitializedConnectingChannels' = st.list
                     /\ fChannels' = st.chans
                     /\ cfgAddress' = st.cfg
                /\ attachCalls' = attachCalls + 1
                /\ pc' = "conn_loop"
    /\ UNCHANGED <<addVars, rateVars, mtVars, config, smVars, fState, subscribed, obsVars, poolVars,
                   devVars, fUninitializedBindingChannels, loopVars, sinkVars, run>>

\* One turn of the loop: sleep, re-read the addresses, give up when
\* numAttempts++ > maxAttempts, else attach again.
ConnectRetry ==
    /\ pc = "conn_retry"
    /\ numAttempts' = numAttempts + 1
    /\ LET updated == UpdateAddresses(fUninitializedConnectingChannels, fChannels)
       IN  IF numAttempts > maxAttempts
           THEN /\ fChannels' = updated
                /\ pc' = "thrown"
                /\ UNCHANGED <<cfgAddress, fUninitializedConnectingChannels, attachCalls>>
           ELSE /\ \E st \in AttachFrom(1, [list |-> fUninitializedConnectingChannels,
                                            chans |-> updated, cfg |-> cfgAddress]) :
                     /\ fUninitializedConnectingChannels' = st.list
                     /\ fChannels' = st.chans
                     /\ cfgAddress' = st.cfg
                /\ attachCalls' = attachCalls + 1
                /\ pc' = "conn_loop"
    /\ UNCHANGED <<addVars, rateVars, mtVars, config, smVars, fState, subscribed, obsVars, poolVars,
                   devVars, fUninitializedBindingChannels, loopVars, sinkVars, run>>

\* Connect(), the user hook.
ConnectUser ==
    /\ pc = "conn_user"
    /\ \E user \in HookOutcomes :
         pc' = IF user = "throw" THEN "thrown" ELSE "auto_check"
    /\ UNCHANGED <<addVars, rateVars, mtVars, cfgVars, smVars, fState, subscribed, obsVars, poolVars,
                   devVars, chanVars, connVars, loopVars, sinkVars, run>>

\* --------------------------------------------------------- InitTaskWrapper
\* InitTask(): the Sink reads max-iterations.
InitTaskWrapper ==
    /\ pc = "itask"
    /\ \E user \in HookOutcomes :
         /\ pc' = IF user = "throw" THEN "thrown" ELSE "auto_check"
         /\ fMaxIterations' = IF user = "ok" /\ config.dispatch = "sink"
                              THEN config.maxIterations ELSE fMaxIterations
    /\ UNCHANGED <<addVars, rateVars, mtVars, cfgVars, smVars, fState, subscribed, obsVars, poolVars,
                   devVars, chanVars, connVars, loopVars, fNumIterations, calls, run>>

\* -------------------------------------------------------- ResetTaskWrapper
ResetTaskWrapper ==
    /\ pc = "rtask"
    /\ \E user \in HookOutcomes :
         pc' = IF user = "throw" THEN "thrown" ELSE "auto_check"
    /\ UNCHANGED <<addVars, rateVars, mtVars, cfgVars, smVars, fState, subscribed, obsVars, poolVars,
                   devVars, chanVars, connVars, loopVars, sinkVars, run>>

\* ------------------------------------------------------------ ResetWrapper
\* The pool reset and cleared, Reset(), the channel map cleared. The working
\* lists are left as they are: what they point to is gone.
ResetWrapper ==
    /\ pc = "reset"
    /\ fTransportMtx = "free"
    /\ fTransports' = {}
    /\ factory' = [k \in Kinds |-> 0]
    /\ interrupted' = [k \in Kinds |-> FALSE]
    /\ \E user \in HookOutcomes :
         IF user = "throw"
         THEN /\ pc' = "thrown"
              /\ UNCHANGED chanVars
         ELSE /\ pc' = "auto_check"
              /\ fChannels' = [n \in ChannelNames |-> <<>>]
              /\ fUninitializedBindingChannels' = MarkStale(fUninitializedBindingChannels)
              /\ fUninitializedConnectingChannels' = MarkStale(fUninitializedConnectingChannels)
    /\ UNCHANGED <<fTransportMtx, adder, rateVars, mtVars, cfgVars, smVars, fState, subscribed, obsVars, devVars,
                   connVars, loopVars, sinkVars, run>>

\* ---------------------------------------------------------------- Exiting
\* Exit(), the user hook.
ExitHandler ==
    /\ pc = "exit"
    /\ \E user \in HookOutcomes :
         pc' = IF user = "throw" THEN "thrown" ELSE "ret"
    /\ UNCHANGED <<addVars, rateVars, mtVars, cfgVars, smVars, fState, subscribed, obsVars, poolVars,
                   devVars, chanVars, connVars, loopVars, sinkVars, run>>

\* -------------------------------------------------------------- RunWrapper
\* Sink::HandleData comparing with > where the code has >=.
HandleDataOneMore ==
    IF fMaxIterations > 0
    THEN [result |-> ~(fNumIterations + 1 > fMaxIterations),
          num |-> fNumIterations + 1]
    ELSE [result |-> TRUE, num |-> fNumIterations]

\* Sink::HandleData: the result, and fNumIterations after the call.
HandleData ==
    IF fMaxIterations > 0
    THEN [result |-> ~(fNumIterations + 1 >= fMaxIterations),
          num |-> fNumIterations + 1]
    ELSE [result |-> TRUE, num |-> fNumIterations]

\* What a registered data callback may return (the Sink's is HandleData).
Callback ==
    IF config.dispatch = "sink"
    THEN {HandleData}
    ELSE {[result |-> b, num |-> fNumIterations] : b \in BOOLEAN}

\* What Receive returns: a negative value on an interrupt or a transport
\* error, the number of bytes otherwise.
ReceiveResults == {-1, 1}

\* HandleMsgInput calling the callback whatever Receive returned.
HandleInputIgnoresResult ==
    IF calls < MaxCalls
    THEN {[rc |-> rc, proceed |-> r.result, called |-> TRUE, threw |-> FALSE,
           num |-> r.num] : rc \in ReceiveResults, r \in Callback}
    ELSE {[rc |-> -1, proceed |-> FALSE, called |-> FALSE, threw |-> FALSE,
           num |-> fNumIterations]}

\* Device::HandleMsgInput / HandleMultipartInput: a Receive that returns a
\* message calls the callback, a negative Receive gives false. The outcomes:
\* what Receive returned, the value returned (or an exception), whether the
\* callback ran, the Sink's counter.
HandleInput ==
    UNION {IF rc >= 0
           THEN (IF calls < MaxCalls
                 THEN {[rc |-> rc, proceed |-> r.result, called |-> TRUE,
                        threw |-> FALSE, num |-> r.num] : r \in Callback}
                      \cup {[rc |-> rc, proceed |-> FALSE, called |-> TRUE,
                             threw |-> TRUE, num |-> fNumIterations]
                              : o \in HookOutcomes \ {"ok"}}
                 ELSE {})
           ELSE {[rc |-> rc, proceed |-> FALSE, called |-> FALSE, threw |-> FALSE,
                  num |-> fNumIterations]}
             : rc \in ReceiveResults}

\* The transport types of the first sub-channels of the input channels.
InputTransports ==
    {fChannels[config.inputKeys[i]][1].transport : i \in 1..Len(config.inputKeys)}

\* Where RunWrapper goes after PreRun(): the single-channel loop, the polled
\* loop, the poller threads, or ConditionalRun/Run; "run_unwind" when
\* GetChannels().at() finds no such channel.
Dispatch ==
    IF config.inputKeys = <<>> THEN "cond_loop"
    ELSE IF \E i \in 1..Len(config.inputKeys) : fChannels[config.inputKeys[i]] = <<>>
         THEN "run_unwind"
         ELSE IF Len(config.inputKeys) = 1 /\ Len(fChannels[config.inputKeys[1]]) = 1
              THEN "loop"
              ELSE IF Cardinality(InputTransports) > 1
                   THEN "mt_start"
                   ELSE "poll_loop"

\* The rate-logger thread is started where a sub-channel has rateLogging > 0;
\* the error unwind is installed; PreRun(); the dispatch is chosen.
RunPre ==
    /\ pc = "run_pre"
    /\ \E user \in HookOutcomes :
         /\ pc' = IF user = "throw" THEN "run_unwind" ELSE Dispatch
         /\ run' = IF user = "throw" \/ Dispatch = "run_unwind" THEN Raise(run) ELSE run
    /\ proceed' = TRUE
    /\ scan' = 0
    /\ rateLogger' = IF RateLogging > 0 THEN [NoLogger EXCEPT !.pc = "start"]
                     ELSE rateLogger
    /\ UNCHANGED <<addVars, messagesRx, clock, rateObs, mtVars, cfgVars, smVars, fState, subscribed, obsVars, poolVars,
                   devVars, chanVars, connVars, sinkVars>>

\* The loop without its NewStatePending() check: while (ConditionalRun())
CondLoopUnchecked ==
    /\ pc = "cond_loop"
    /\ \E r \in (IF config.conditionalRunForever THEN {"true"}
                  ELSE {"true", "false"}) \cup (HookOutcomes \ {"ok"}) :
           /\ pc' = CASE r = "true" -> "cond_loop"
                      [] r = "false" -> "run_user"
                      [] OTHER -> "run_unwind"
           /\ run' = IF r = "throw" THEN Raise(run) ELSE run
    /\ UNCHANGED <<addVars, rateVars, mtVars, cfgVars, smVars, fState, subscribed, obsVars, poolVars,
                   devVars, chanVars, connVars, loopVars, sinkVars>>

\* while (!NewStatePending() && ConditionalRun())
CondLoop ==
    /\ pc = "cond_loop"
    /\ IF NewStatePending
       THEN pc' = "run_user" /\ UNCHANGED run
       ELSE \E r \in (IF config.conditionalRunForever THEN {"true"}
                      ELSE {"true", "false"}) \cup (HookOutcomes \ {"ok"}) :
               /\ pc' = CASE r = "true" -> "cond_loop"
                          [] r = "false" -> "run_user"
                          [] OTHER -> "run_unwind"
               /\ run' = IF r = "throw" THEN Raise(run) ELSE run
    /\ UNCHANGED <<addVars, rateVars, mtVars, cfgVars, smVars, fState, subscribed, obsVars, poolVars,
                   devVars, chanVars, connVars, loopVars, sinkVars>>

\* Run(), the user hook.
RunUser ==
    /\ pc = "run_user"
    /\ \E user \in HookOutcomes :
         /\ pc' = IF user = "throw" THEN "run_unwind" ELSE "run_check"
         /\ run' = [run EXCEPT !.runCalled = TRUE, !.threw = (user = "throw")]
    /\ UNCHANGED <<addVars, rateVars, mtVars, cfgVars, smVars, fState, subscribed, obsVars, poolVars,
                   devVars, chanVars, connVars, loopVars, sinkVars>>

\* The effect of one HandleMsgInput outcome h on the Sink's counter, the
\* call count and the record of the phase.
AfterInput(h) ==
    /\ fNumIterations' = h.num
    /\ calls' = IF h.called THEN calls + 1 ELSE calls
    /\ run' = IF h.threw THEN Raise(run)
              ELSE IF h.called
                   THEN [run EXCEPT !.called = TRUE,
                                    !.cbFalse = @ \/ (~h.proceed /\ ~NewStatePending),
                                    !.cbOnNeg = @ \/ h.rc < 0]
                   ELSE [run EXCEPT !.negRecv = @ \/ (h.rc < 0 /\ ~NewStatePending)]
    /\ UNCHANGED fMaxIterations

\* HandleSingleChannelInput: while (!NewStatePending() && proceed)
SingleLoop ==
    /\ pc = "loop"
    /\ pc' = IF ~NewStatePending /\ proceed THEN "recv" ELSE "run_check"
    /\ UNCHANGED <<addVars, rateVars, mtVars, cfgVars, smVars, fState, subscribed, obsVars, poolVars,
                   devVars, chanVars, connVars, loopVars, sinkVars, run>>

\* proceed = HandleMsgInput(...)
SingleReceive ==
    /\ pc = "recv"
    /\ \E h \in HandleInput :
         /\ AfterInput(h)
         /\ proceed' = h.proceed
         /\ pc' = IF h.threw THEN "run_unwind" ELSE "loop"
    /\ UNCHANGED <<addVars, rateVars, mtVars, cfgVars, smVars, fState, subscribed, obsVars, poolVars,
                   devVars, chanVars, connVars, scan>>

\* The sub-channels the polled loop walks: every sub-channel of every input
\* channel.
RECURSIVE InputSubChannels(_)
InputSubChannels(keys) ==
    IF keys = <<>> THEN <<>>
    ELSE [i \in 1..Len(fChannels[Head(keys)]) |-> Entry(Head(keys), i)]
         \o InputSubChannels(Tail(keys))

\* HandleMultipleChannelInput with one transport:
\* while (!NewStatePending() && proceed)
PollLoop ==
    /\ pc = "poll_loop"
    /\ pc' = IF ~NewStatePending /\ proceed THEN "poll" ELSE "run_check"
    /\ scan' = 0
    /\ UNCHANGED <<addVars, rateVars, mtVars, cfgVars, smVars, fState, subscribed, obsVars, poolVars,
                   devVars, chanVars, connVars, proceed, sinkVars, run>>

\* poller->Poll(200)
Poll ==
    /\ pc = "poll"
    /\ \E r \in HookOutcomes :
         /\ pc' = IF r = "throw" THEN "run_unwind" ELSE "poll_scan"
         /\ scan' = IF r = "throw" THEN 0 ELSE 1
         /\ run' = IF r = "throw" THEN Raise(run) ELSE run
    /\ UNCHANGED <<addVars, rateVars, mtVars, cfgVars, smVars, fState, subscribed, obsVars, poolVars,
                   devVars, chanVars, connVars, proceed, sinkVars>>

\* One sub-channel of the scan: if its input is ready, its data handler is
\* called; a false result breaks out of the scan.
PollScan ==
    /\ pc = "poll_scan"
    /\ IF scan > Len(InputSubChannels(config.inputKeys))
       THEN /\ pc' = "poll_loop"
            /\ scan' = 0
            /\ UNCHANGED <<proceed, sinkVars, run>>
       ELSE \/ /\ scan' = scan + 1
               /\ pc' = "poll_scan"
               /\ UNCHANGED <<proceed, sinkVars, run>>
            \/ \E h \in HandleInput :
                 /\ AfterInput(h)
                 /\ proceed' = h.proceed
                 /\ pc' = IF h.threw THEN "run_unwind"
                          ELSE IF h.proceed THEN "poll_scan" ELSE "poll_loop"
                 /\ scan' = IF h.threw \/ ~h.proceed THEN 0 ELSE scan + 1
    /\ UNCHANGED <<addVars, rateVars, mtVars, cfgVars, smVars, fState, subscribed, obsVars, poolVars,
                   devVars, chanVars, connVars>>

\* ------------------------------------------- HandleMultipleTransportInput
\* fMultitransportInputs.at(k): the input channels whose first sub-channel
\* is of transport k.
RECURSIVE KeysOf(_, _)
KeysOf(k, keys) ==
    IF keys = <<>> THEN <<>>
    ELSE (IF fChannels[Head(keys)][1].transport = k THEN <<Head(keys)>> ELSE <<>>)
         \o KeysOf(k, Tail(keys))

\* fMultitransportProceed = true; one PollForTransport thread per transport.
MTStart ==
    /\ pc = "mt_start"
    /\ fMultitransportProceed' = TRUE
    /\ poller' = [k \in Kinds |-> IF k \in InputTransports THEN "create" ELSE "none"]
    /\ pollerScan' = [k \in Kinds |-> 0]
    /\ pc' = "mt_join"
    /\ UNCHANGED <<rateVars, addVars, cfgVars, smVars, fState, subscribed, obsVars, poolVars,
                   devVars, chanVars, connVars, loopVars, sinkVars, run,
                   fMultitransportMutex>>

\* for (thread& t : threads) t.join()
MTJoin ==
    /\ pc = "mt_join"
    /\ \A k \in Kinds : poller[k] \in {"none", "done"}
    /\ poller' = [k \in Kinds |-> "none"]
    /\ pc' = "run_check"
    /\ UNCHANGED <<rateVars, addVars, cfgVars, smVars, fState, subscribed, obsVars, poolVars,
                   devVars, chanVars, connVars, loopVars, sinkVars, run,
                   fMultitransportProceed, fMultitransportMutex, pollerScan>>

\* What a poller thread leaves alone whatever it does.
pollerFrame ==
    <<rateVars, addVars, cfgVars, smVars, fState, subscribed, obsVars, poolVars, devVars,
      chanVars, connVars, loopVars, fMaxIterations>>

\* The thread of transport k is at position at.
PollerAt(k, at) == pc = "mt_join" /\ poller[k] = at

\* factory->CreatePoller(GetChannels(), channelKeys)
PollerCreate(k) ==
    /\ PollerAt(k, "create")
    /\ \E r \in HookOutcomes :
         poller' = [poller EXCEPT ![k] = IF r = "throw" THEN "catch" ELSE "loop"]
    /\ UNCHANGED <<pollerFrame, fNumIterations, calls, run, pc,
                   fMultitransportProceed, fMultitransportMutex, pollerScan>>

\* while (!NewStatePending() && fMultitransportProceed)
PollerLoop(k) ==
    /\ PollerAt(k, "loop")
    /\ poller' = [poller EXCEPT ![k] =
                     IF ~NewStatePending /\ fMultitransportProceed
                     THEN "poll" ELSE "done"]
    /\ UNCHANGED <<pollerFrame, fNumIterations, calls, run, pc,
                   fMultitransportProceed, fMultitransportMutex, pollerScan>>

\* poller->Poll(500)
PollerPoll(k) ==
    /\ PollerAt(k, "poll")
    /\ \E r \in HookOutcomes :
         /\ poller' = [poller EXCEPT ![k] = IF r = "throw" THEN "catch" ELSE "scan"]
         /\ pollerScan' = [pollerScan EXCEPT ![k] = IF r = "throw" THEN 0 ELSE 1]
    /\ UNCHANGED <<pollerFrame, fNumIterations, calls, run, pc,
                   fMultitransportProceed, fMultitransportMutex>>

\* One sub-channel of the scan: CheckInput says whether its input is ready.
PollerScan(k) ==
    /\ PollerAt(k, "scan")
    /\ IF pollerScan[k] > Len(InputSubChannels(KeysOf(k, config.inputKeys)))
       THEN /\ poller' = [poller EXCEPT ![k] = "loop"]
            /\ pollerScan' = [pollerScan EXCEPT ![k] = 0]
       ELSE \/ /\ pollerScan' = [pollerScan EXCEPT ![k] = @ + 1]
               /\ UNCHANGED poller
            \/ /\ poller' = [poller EXCEPT ![k] = "lock"]
               /\ UNCHANGED pollerScan
    /\ UNCHANGED <<pollerFrame, fNumIterations, calls, run, pc,
                   fMultitransportProceed, fMultitransportMutex>>

\* The lock taken whether or not another thread holds it.
PollerLockNoWait(k) ==
    /\ PollerAt(k, "lock")
    /\ fMultitransportMutex' = k
    /\ poller' = [poller EXCEPT ![k] = "check"]
    /\ UNCHANGED <<pollerFrame, fNumIterations, calls, run, pc,
                   fMultitransportProceed, pollerScan>>

\* lock_guard<mutex> lock(fMultitransportMutex)
PollerLock(k) ==
    /\ PollerAt(k, "lock")
    /\ fMultitransportMutex = "free"
    /\ fMultitransportMutex' = k
    /\ poller' = [poller EXCEPT ![k] = "check"]
    /\ UNCHANGED <<pollerFrame, fNumIterations, calls, run, pc,
                   fMultitransportProceed, pollerScan>>

\* if (!fMultitransportProceed) break, the lock released on the way out.
PollerCheck(k) ==
    /\ PollerAt(k, "check")
    /\ IF fMultitransportProceed
       THEN /\ poller' = [poller EXCEPT ![k] = "call"]
            /\ UNCHANGED <<fMultitransportMutex, pollerScan>>
       ELSE /\ poller' = [poller EXCEPT ![k] = "loop"]
            /\ fMultitransportMutex' = "free"
            /\ pollerScan' = [pollerScan EXCEPT ![k] = 0]
    /\ UNCHANGED <<pollerFrame, fNumIterations, calls, run, pc,
                   fMultitransportProceed>>

\* fMultitransportProceed = HandleMsgInput(...), the lock released after it.
PollerCall(k) ==
    /\ PollerAt(k, "call")
    /\ \E h \in HandleInput :
         /\ AfterInput(h)
         /\ fMultitransportProceed' = IF h.threw THEN fMultitransportProceed
                                      ELSE h.proceed
         /\ poller' = [poller EXCEPT ![k] =
                          IF h.threw THEN "catch"
                          ELSE IF h.proceed THEN "scan" ELSE "loop"]
         /\ pollerScan' = [pollerScan EXCEPT ![k] =
                              IF h.threw \/ ~h.proceed THEN 0 ELSE @ + 1]
    /\ fMultitransportMutex' = "free"
    /\ UNCHANGED <<pollerFrame, pc>>

\* catch (exception& e): logged and thrown again, out of the thread's
\* function: std::terminate.
PollerRethrow(k) ==
    /\ PollerAt(k, "catch")
    /\ poller' = [poller EXCEPT ![k] = "threw"]
    /\ pc' = "terminated"
    /\ UNCHANGED <<rateVars, addVars, cfgVars, smVars, fState, subscribed, obsVars, poolVars,
                   devVars, chanVars, connVars, loopVars, sinkVars, run,
                   fMultitransportProceed, fMultitransportMutex, pollerScan>>

\* Device::PollForTransport, a step of the thread of transport k.
PollForTransport(k) ==
    \/ PollerCreate(k)
    \/ PollerLoop(k)
    \/ PollerPoll(k)
    \/ PollerScan(k)
    \/ PollerLock(k)
    \/ PollerCheck(k)
    \/ PollerCall(k)
    \/ PollerRethrow(k)

\* "if Run() exited and the state is still RUNNING": if (!NewStatePending())
RunCheck ==
    /\ pc = "run_check"
    /\ pc' = IF NewStatePending THEN "run_post" ELSE "run_stop"
    /\ UNCHANGED <<addVars, rateVars, mtVars, cfgVars, smVars, fState, subscribed, obsVars, poolVars,
                   devVars, chanVars, connVars, loopVars, sinkVars, run>>

\* ChangeStateOrThrow(Transition::Stop)
RunStop ==
    /\ pc = "run_stop"
    /\ ChangeState("Stop")
    /\ pc' = IF IsValid(fsmState, "Stop") THEN "run_post" ELSE "run_unwind"
    /\ run' = [run EXCEPT !.stopReq = @ + 1,
                          !.threw = ~IsValid(fsmState, "Stop")]
    /\ UNCHANGED <<addVars, rateVars, mtVars, cfgVars, fState, subscribed, obsVars, fTransports, devVars,
                   chanVars, connVars, loopVars, sinkVars>>

\* RunPost without cod.disable(): the error unwind runs on every exit.
RunPostNoDisable ==
    /\ pc = "run_post"
    /\ \E user \in HookOutcomes :
         /\ pc' = "run_unwind"
         /\ run' = [run EXCEPT !.postRun = TRUE, !.threw = (user = "throw")]
    /\ UNCHANGED <<addVars, rateVars, mtVars, cfgVars, smVars, fState, subscribed, obsVars, poolVars,
                   devVars, chanVars, connVars, loopVars, sinkVars>>

\* PostRun(); cod.disable() and the return when it did not throw.
RunPost ==
    /\ pc = "run_post"
    /\ \E user \in HookOutcomes :
         /\ pc' = IF user = "throw" THEN "run_unwind" ELSE "ret"
         /\ run' = [run EXCEPT !.postRun = TRUE, !.threw = (user = "throw")]
    /\ UNCHANGED <<addVars, rateVars, mtVars, cfgVars, smVars, fState, subscribed, obsVars, poolVars,
                   devVars, chanVars, connVars, loopVars, sinkVars>>

\* An error unwind that requests nothing.
RunUnwindNoRequest ==
    /\ pc = "run_unwind"
    /\ pc' = "thrown"
    /\ run' = [run EXCEPT !.efReq = @ + 1]
    /\ UNCHANGED <<addVars, rateVars, mtVars, cfgVars, smVars, interrupted, fState, subscribed,
                   obsVars, fTransports, devVars, chanVars, connVars, loopVars, sinkVars>>

\* The error unwind on an exception: ChangeStateOrThrow(ErrorFound). It runs
\* in a destructor, so a rejected ErrorFound ends the process.
RunUnwind ==
    /\ pc = "run_unwind"
    /\ ChangeState("ErrorFound")
    /\ pc' = IF IsValid(fsmState, "ErrorFound") THEN "thrown" ELSE "terminated"
    /\ run' = [run EXCEPT !.efReq = @ + 1]
    /\ UNCHANGED <<addVars, rateVars, mtVars, cfgVars, fState, subscribed, obsVars, fTransports, devVars,
                   chanVars, connVars, loopVars, sinkVars>>

\* ---------------------------------------------------------- the rate logger
\* The frame of the rate-logger thread and of the traffic on its channel.
loggerFrame ==
    <<addVars, mtVars, cfgVars, smVars, fState, subscribed, pc, obsVars, poolVars,
      devVars, chanVars, connVars, loopVars, sinkVars, run>>

\* The sub-channel receives a message while the device runs: the transport
\* call counts it.
Traffic ==
    /\ pc = "cond_loop"
    /\ messagesRx < MaxMessages
    /\ messagesRx' = messagesRx + 1
    /\ UNCHANGED <<rateLogger, clock, rateObs, loggerFrame>>

\* LogSocketRates up to its loop: the channels with rateLogging > 0 are
\* collected, their counters and the time t0 are taken.
LogStart ==
    /\ rateLogger.pc = "start"
    /\ rateLogger' = [pc |-> "check", intervalCounter |-> 0, msgIn |-> messagesRx,
                      t0 |-> clock]
    /\ rateObs' = [wakeups |-> 0, since |-> clock, rx |-> messagesRx, line |-> NoLine]
    /\ UNCHANGED <<messagesRx, clock, loggerFrame>>

\* while (!NewStatePending())
LogCheck ==
    /\ rateLogger.pc = "check"
    /\ rateLogger' = [rateLogger EXCEPT !.pc = IF NewStatePending THEN "done"
                                                ELSE "sleep"]
    /\ UNCHANGED <<messagesRx, clock, rateObs, loggerFrame>>

\* The body of the loop: WaitFor has returned at the time `now`; the
\* channel's interval counter is advanced; where it has reached rateLogging
\* it is reset and, if time has passed since t0, a line is logged with the
\* messages since the snapshot and the milliseconds since t0, and the
\* snapshot is renewed; t0 is set to `now`, with a line or without.
LogBody(now) ==
    LET msSinceLastLog == now - rateLogger.t0
        counter == rateLogger.intervalCounter + 1
        due == counter = RateLogging
        logs == due /\ msSinceLastLog > 0
    IN  /\ clock' = now
        /\ rateLogger' = [pc |-> "check",
                          intervalCounter |-> IF due THEN 0 ELSE counter,
                          msgIn |-> IF logs THEN messagesRx ELSE rateLogger.msgIn,
                          t0 |-> now]
        /\ rateObs' = IF logs
                      THEN [wakeups |-> 0, since |-> now, rx |-> messagesRx,
                            line |-> [msgs |-> messagesRx - rateLogger.msgIn,
                                      ms |-> msSinceLastLog,
                                      wakeups |-> rateObs.wakeups + 1,
                                      elapsed |-> now - rateObs.since,
                                      increase |-> messagesRx - rateObs.rx]]
                      ELSE [rateObs EXCEPT !.wakeups = @ + 1, !.line = NoLine]
        /\ UNCHANGED <<messagesRx, loggerFrame>>

\* One turn of the loop: WaitFor(1 s) returns after some time, at once
\* perhaps where a state is pending; then the body.
LogWake ==
    /\ rateLogger.pc = "sleep"
    /\ \E ms \in (IF NewStatePending THEN {0} ELSE {}) \cup 1..MaxSlice :
         /\ clock + ms <= MaxClock
         /\ LogBody(clock + ms)

\* The rate-logger thread.
LogSocketRates == LogStart \/ LogCheck \/ LogWake

\* ------------------------------------------------------------ specifications
\* The controller.
Controller == \E t \in Transitions : ExternalRequest(t)

\* The peer's address is written to the config once it is known.
AddressArrives == \E k \in DOMAIN cfgAddress : ConfigUpdate(k, Live)

\* The worker thread, but for the retry loop of the Connecting state and the
\* dispatch of the Running state.
Worker ==
    \/ WorkerConsume
    \/ PrepareState
    \/ HandleStates
    \/ WorkerReturn
    \/ WorkerThrown
    \/ AutoCheck
    \/ AutoRequest
    \/ InitWait
    \/ InitBody
    \/ InitChannels
    \/ BindWrapper
    \/ BindUser
    \/ ConnectFirst
    \/ ConnectLoop
    \/ ConnectUser
    \/ InitTaskWrapper
    \/ ResetTaskWrapper
    \/ ResetWrapper
    \/ ExitHandler
    \/ RunPre
    \/ RunCheck
    \/ RunStop
    \/ RunPost
    \/ RunUnwind

\* ConditionalRun/Run.
CondDispatch == CondLoop \/ RunUser

\* The data callbacks on the worker thread.
DataDispatch == SingleLoop \/ SingleReceive \/ PollLoop \/ Poll \/ PollScan

\* A device without data callbacks, its peer late or not.
Next ==
    \/ Controller
    \/ AddressArrives
    \/ Destroy
    \/ Worker
    \/ ConnectRetry
    \/ CondDispatch

Spec == Init /\ [][Next]_vars

\* The same, the worker thread being scheduled as long as it can run.
SpecFair == Spec /\ WF_vars(Worker \/ ConnectRetry \/ CondDispatch)

\* A device with data callbacks on bound channels.
InitData == InitWith(DataConfigs)

NextData ==
    \/ Controller
    \/ Destroy
    \/ Worker
    \/ DataDispatch

SpecData == InitData /\ [][NextData]_vars

\* A device with data callbacks on channels of two transports.
InitMT == InitWith(MultiConfigs)

NextMT ==
    \/ Controller
    \/ Destroy
    \/ Worker
    \/ MTStart
    \/ MTJoin
    \/ \E k \in Kinds : PollForTransport(k)

SpecMT == InitMT /\ [][NextMT]_vars

\* The same, every thread being scheduled as long as it can run.
SpecMTFair ==
    /\ SpecMT
    /\ WF_vars(Worker \/ MTStart \/ MTJoin)
    /\ \A k \in Kinds : WF_vars(PollForTransport(k))

\* User threads calling AddTransport next to the worker.
UserAddsTransport ==
    \E c \in Callers :
        \/ \E t \in Kinds \cup {"DEFAULT"} : AddTransportLock(c, t)
        \/ AddTransportFind(c)
        \/ AddTransportInsert(c)
        \/ AddTransportReuse(c)

InitPool == InitWith(PoolConfigs)

\* A controller that initialises the device and resets it, again and again.
PoolTransitions == {"InitDevice", "CompleteInit", "ResetDevice"}

PoolController == \E t \in PoolTransitions : ExternalRequest(t)

\* The worker thread as far as that controller takes it.
PoolWorker ==
    \/ WorkerConsume
    \/ PrepareState
    \/ HandleStates
    \/ WorkerReturn
    \/ WorkerThrown
    \/ AutoCheck
    \/ AutoRequest
    \/ InitWait
    \/ InitBody
    \/ InitChannels
    \/ ResetWrapper

NextPool ==
    \/ PoolController
    \/ Destroy
    \/ PoolWorker
    \/ UserAddsTransport

SpecPool == InitPool /\ [][NextPool]_vars

\* A device with one sub-channel of any method and address, on a machine
\* where the port asked for may be taken; the controller takes it up to the
\* DeviceReady state.
MaxEndpoints == 2

AttachEndpoints ==
    {Ep(m, "tcp", h, 1) : m \in Modifiers \cup {""}, h \in {"*", "live", "dead"}}
    \cup {Ep(m, "ipc", "sock", 0) : m \in {"", "@"}}

AttachAddresses ==
    {Unspecified, <<>>} \cup UNION {[1..n -> AttachEndpoints] : n \in 1..MaxEndpoints}

AttachConfigs ==
    {[dispatch |-> "cond", inputKeys |-> <<>>, transport |-> "zeromq",
      chans |-> <<ChanCfg("data", 0, m, a, "DEFAULT")>>,
      initTimeout |-> 0, maxIterations |-> 0, userThrows |-> FALSE,
      conditionalRunForever |-> FALSE, portsTaken |-> p]
        : m \in {"bind", "connect", ""}, a \in AttachAddresses, p \in {{}, {1}}}

AttachController ==
    \E t \in {"InitDevice", "CompleteInit", "Bind", "Connect"} : ExternalRequest(t)

\* The worker thread as far as that controller takes it.
AttachWorker ==
    \/ WorkerConsume
    \/ PrepareState
    \/ HandleStates
    \/ WorkerReturn
    \/ WorkerThrown
    \/ AutoCheck
    \/ AutoRequest
    \/ InitWait
    \/ InitBody
    \/ InitChannels
    \/ BindWrapper
    \/ BindUser
    \/ ConnectFirst
    \/ ConnectLoop
    \/ ConnectRetry
    \/ ConnectUser

NextAttach ==
    \/ AttachController
    \/ Destroy
    \/ AttachWorker

SpecAttach == InitWith(AttachConfigs) /\ [][NextAttach]_vars

\* A device with one sub-channel whose rates are logged, every wake-up of
\* the logger or every few; the controller takes it to Running and stops it.
RateConfigs ==
    {[dispatch |-> "cond", inputKeys |-> <<>>, transport |-> "zeromq",
      chans |-> <<ChanCfg("data", 0, "connect", Live, "DEFAULT")>>,
      initTimeout |-> 0, maxIterations |-> 0, userThrows |-> FALSE,
      conditionalRunForever |-> FALSE, rateLogging |-> n]
        : n \in 1..MaxRateLogging}

RateController ==
    \E t \in {"InitDevice", "CompleteInit", "Bind", "Connect", "InitTask", "Run", "Stop"} :
        ExternalRequest(t)

\* The worker thread as far as that controller takes it.
RateWorker ==
    \/ WorkerConsume
    \/ PrepareState
    \/ HandleStates
    \/ WorkerReturn
    \/ WorkerThrown
    \/ AutoCheck
    \/ AutoRequest
    \/ InitWait
    \/ InitBody
    \/ InitChannels
    \/ BindWrapper
    \/ BindUser
    \/ ConnectFirst
    \/ ConnectLoop
    \/ ConnectUser
    \/ InitTaskWrapper
    \/ RunPre
    \/ RunCheck
    \/ RunStop
    \/ RunPost
    \/ RunUnwind

NextRates ==
    \/ RateController
    \/ Destroy
    \/ RateWorker
    \/ CondDispatch
    \/ Traffic
    \/ LogSocketRates

SpecRates == InitWith(RateConfigs) /\ [][NextRates]_vars

\* A device with a rate-logged sub-channel whose hooks may throw, the
\* rate-logger thread being scheduled next to the worker.
JoinConfigs ==
    {[dispatch |-> "cond", inputKeys |-> <<>>, transport |-> "zeromq",
      chans |-> <<ChanCfg("data", 0, "connect", Live, "DEFAULT")>>,
      initTimeout |-> 0, maxIterations |-> 0, userThrows |-> u,
      conditionalRunForever |-> FALSE, rateLogging |-> 1]
        : u \in BOOLEAN}

NextJoin ==
    \/ RateController
    \/ Destroy
    \/ RateWorker
    \/ CondDispatch
    \/ LogSocketRates

SpecJoin == InitWith(JoinConfigs) /\ [][NextJoin]_vars

\* The same, both threads being scheduled as long as they can run.
SpecJoinFair ==
    /\ SpecJoin
    /\ WF_vars(RateWorker \/ CondDispatch)
    /\ WF_vars(LogSocketRates)

\* A device that is initialised, reset and initialised again, with one
\* sub-channel of any method, with a modifier or without, or with a bound
\* and a connecting one.
ReinitConfigs ==
    {[dispatch |-> "cond", inputKeys |-> <<>>, transport |-> "zeromq",
      chans |-> c, initTimeout |-> 0, maxIterations |-> 0, userThrows |-> FALSE,
      conditionalRunForever |-> FALSE]
        : c \in {<<ChanCfg("data", 0, m, a, "DEFAULT")>>
                   : m \in {"bind", "connect", ""},
                     a \in {Live, Dead, <<Ep("+", "tcp", "10.0.0.1", 1)>>}}
                 \cup {<<ChanCfg("data", 0, "bind", Live, "DEFAULT"),
                         ChanCfg("meta", 0, "connect", Live, "DEFAULT")>>}}

ReinitController ==
    \E t \in {"InitDevice", "CompleteInit", "Bind", "Connect", "ResetDevice"} :
        Request(t, MaxStale)

NextReinit ==
    \/ ReinitController
    \/ Destroy
    \/ AttachWorker
    \/ ResetWrapper

SpecReinit == InitWith(ReinitConfigs) /\ [][NextReinit]_vars

\* A device with data callbacks in each of the three dispatch paths (one
\* sub-channel, several of one transport, several transports); the
\* controller takes it to Running and stops it.
NextDispatch ==
    \/ RateController
    \/ Destroy
    \/ RateWorker
    \/ DataDispatch
    \/ MTStart
    \/ MTJoin
    \/ \E k \in Kinds : PollForTransport(k)

SpecDispatch ==
    InitWith(SinkConfigs \cup PollConfigs \cup MultiConfigs) /\ [][NextDispatch]_vars

\* The same, every thread being scheduled as long as it can run.
SpecDispatchFair ==
    /\ SpecDispatch
    /\ WF_vars(RateWorker \/ DataDispatch \/ MTStart \/ MTJoin)
    /\ \A k \in Kinds : WF_vars(PollForTransport(k))

\* ------------------------------------------------------------------ claims
\* The last two states the handler pushed, once the push is done.
Observed == Len(fStateQueue) = 2 /\ pc \notin {"prepare", "handle"}

C3_ResumedBeforeHandler ==
    pc = "handle" => \A k \in fTransports : interrupted[k] => fNewStatePending

\* A handler about to start with a pooled transport, live again.
C3_Witness ==
    /\ pc = "handle"
    /\ fTransports # {}
    /\ fStateQueue # <<>>
    /\ ~fNewStatePending
    /\ \A k \in fTransports : ~interrupted[k]

\* The Running handler has been left: by return, by exception, or by the
\* end of the process.
RunExited == fState = "Running" /\ pc \in {"ret", "thrown", "terminated"}

StopRequested ==
    /\ config.dispatch = "cond"
    /\ config.conditionalRunForever
    /\ ~config.userThrows
    /\ run.active
    /\ run.extStop

\* The Running handler has returned: Run() and PostRun() were called, the
\* driver requested neither Stop nor ErrorFound, and the machine is in Ready
\* (where the controller's Stop was all that was requested meanwhile).
RunEndedQuietly ==
    /\ fState = "Running"
    /\ pc = "wait"
    /\ ~run.active
    /\ run.runCalled
    /\ run.postRun
    /\ run.stopReq = 0
    /\ run.efReq = 0
    /\ run.ext = 1 => fsmState = "Ready"

\* C4: an external Stop during Running in a ConditionalRun device leads to
\* the loop's exit, Run() and PostRun(), no Stop or ErrorFound from the
\* driver, and the Ready state.
C4_ExternalStopEndsRun == StopRequested ~> RunEndedQuietly

\* The handler has returned after the controller's Stop, the machine in Ready.
C4_Witness ==
    /\ RunEndedQuietly
    /\ run.extStop
    /\ run.ext = 1
    /\ config.conditionalRunForever
    /\ ~config.userThrows
    /\ fsmState = "Ready"

\* A data callback returned false with no transition pending, and no
\* controller has had a transition accepted during this Running phase.
CallbackEndedRun == fState = "Running" /\ run.cbFalse /\ run.ext = 0

C7_PollerExceptionReachesWorker ==
    \A k \in Kinds : poller[k] = "threw" => pc # "terminated"

\* A data callback of the fan-out has returned false with no transition
\* pending, the worker waiting to join the poller threads.
FanOutCallbackFalse == pc = "mt_join" /\ run.cbFalse

\* HandleMultipleTransportInput has returned, PostRun() not yet called.
FanOutJoined ==
    /\ pc = "run_check"
    /\ ~run.postRun
    /\ \A k \in Kinds : poller[k] = "none"

\* C8 as stated, its liveness part: once a data callback has returned false,
\* every poller thread exits and HandleMultipleTransportInput returns before
\* PostRun() is called.
C8_PollersExitAfterFalse == FanOutCallbackFalse ~> FanOutJoined

\* The poller threads that are between taking the mutex and releasing it.
InCallback == {k \in Kinds : poller[k] \in {"check", "call"}}

\* C9: at most one poller thread is in a data callback at a time, and a
\* thread checks the flag, runs the callback and stores its result holding
\* the mutex all along.
C9_CallbacksExclusive ==
    /\ Cardinality(InCallback) <= 1
    /\ \A k \in InCallback : fMultitransportMutex = k

\* One poller thread in its callback, the other waiting for the mutex.
C9_Witness ==
    \E k \in Kinds :
        /\ pc = "mt_join"
        /\ poller[k] = "call"
        /\ \E j \in Kinds \ {k} : poller[j] = "lock"

\* C10 as stated, for an init-timeout of a second or more: the Connecting
\* handler calls AttachChannels at most init-timeout * 1000 / 50 times.
C10_AtMostMaxAttempts ==
    fInitializationTimeoutInS >= 1 => attachCalls <= maxAttempts

\* A channel of the connecting list is still unattached and nobody has had a
\* transition accepted since the worker took the Connecting state.
ConnectStuck ==
    /\ fState = "Connecting"
    /\ ahead = 0
    /\ fUninitializedConnectingChannels # <<>>

\* C11: while a connecting channel stays unattached and no transition is
\* requested, the Connecting handler gets neither to Connect() nor to Auto and
\* the machine does not leave Connecting but to Error; and the handler does
\* not retry for ever: it throws, which puts the device in Error.
C11_ConnectTimeoutIsFatal ==
    /\ [](ConnectStuck =>
            /\ pc \in {"prepare", "handle", "conn_first", "conn_loop",
                       "conn_retry", "thrown"}
            /\ fsmState = "Connecting")
    /\ (ConnectStuck ~>
            \/ fsmState = "Error" /\ fState = "Error" /\ pc = "stopped"
            \/ ahead > 0
            \/ fUninitializedConnectingChannels = <<>>)

\* The Connecting handler gave up on a channel without a peer: the device is
\* in Error, Connecting being the last state handled.
C11_Witness ==
    /\ pc = "stopped"
    /\ fsmState = "Error"
    /\ fStateQueue # <<>>
    /\ fStateQueue[Len(fStateQueue)] = "Connecting"
    /\ fUninitializedConnectingChannels # <<>>
    /\ \A i \in 1..Len(fUninitializedConnectingChannels) :
          ~fUninitializedConnectingChannels[i].stale
    /\ ahead = 1

\* The config address of the sub-channel a working-list entry points to.
ConfigAddressOf(e) == cfgAddress[<<fChannels[e.name][e.pos].name, fChannels[e.name][e.pos].idx>>]

\* The Connecting handler is in its retry loop with attempts left, the config
\* holds an attachable address for every channel still in the list, the hooks
\* behave and nobody has had a transition accepted.
AddressArrivedInTime ==
    /\ fState = "Connecting"
    /\ pc \in {"conn_loop", "conn_retry"}
    /\ ahead = 0
    /\ ~config.userThrows
    /\ numAttempts <= maxAttempts
    /\ fUninitializedConnectingChannels # <<>>
    /\ \A i \in 1..Len(fUninitializedConnectingChannels) :
          /\ ~fUninitializedConnectingChannels[i].stale
          /\ Attachable("connect", ConfigAddressOf(fUninitializedConnectingChannels[i]))

\* C12: every turn of the retry loop gives each channel still in the list the
\* address the config holds for it, and a turn with attempts left attaches
\* and removes exactly the channels whose config address is attachable; so an
\* address that arrives while attempts are left lets Connecting complete: the
\* driver's Auto takes the machine to DeviceReady (unless a controller's
\* transition comes first), the handler does not throw.
C12_RetryRereadsAddress ==
    /\ [][pc = "conn_retry" /\ pc' # "conn_retry" =>
            \A i \in 1..Len(fUninitializedConnectingChannels) :
                LET e == fUninitializedConnectingChannels[i]
                    ch == fChannels'[e.name][e.pos]
                    left == \E j \in 1..Len(fUninitializedConnectingChannels') :
                                fUninitializedConnectingChannels'[j] = e
                IN  ~e.stale =>
                      /\ ch.address = ConfigAddressOf(e)
                      /\ numAttempts <= maxAttempts =>
                           /\ ch.attached <=> Attachable("connect", ConfigAddressOf(e))
                           /\ left <=> ~ch.attached]_vars
    /\ (AddressArrivedInTime ~>
            \/ fsmState = "DeviceReady"
            \/ ahead > 0 /\ pc # "stopped")

\* Connecting completed on a retry: the channel attached on a later attempt,
\* the list is empty, the driver's Auto took the machine to DeviceReady.
C12_Witness ==
    /\ fState = "Connecting"
    /\ pc = "ret"
    /\ attachCalls >= 2
    /\ fUninitializedConnectingChannels = <<>>
    /\ fChannels["data"] # <<>>
    /\ fChannels["data"][1].attached
    /\ fChannels["data"][1].address = Live
    /\ config.chans[1].address = Dead
    /\ fsmState = "DeviceReady"
    /\ ahead = 1

\* The states from DeviceReady up to the task reset of the same pass.
AttachedStates == {"DeviceReady", "InitializingTask", "Ready", "Running", "ResettingTask"}

\* C13: while the machine is in DeviceReady or a later state of the pass, both
\* working lists are empty and every sub-channel of the channel map is valid
\* and attached.
C13_ReadyMeansAttached ==
    fsmState \in AttachedStates =>
        /\ fUninitializedBindingChannels = <<>>
        /\ fUninitializedConnectingChannels = <<>>
        /\ \A n \in ChannelNames : \A i \in 1..Len(fChannels[n]) :
              Validate(fChannels[n][i]) /\ fChannels[n][i].attached

\* C14: the Binding handler runs AttachChannels once; it gets to Bind() and
\* to its Auto only with the binding list empty, and throws in the step that
\* leaves a channel in the list.
C14_BindingSinglePass ==
    /\ [](fState = "Binding" =>
            /\ attachCalls <= 1
            /\ pc \in {"bind_user", "auto_check", "auto_req"} =>
                 attachCalls = 1 /\ fUninitializedBindingChannels = <<>>)
    /\ [][pc = "bind" /\ pc' # "bind" =>
            /\ attachCalls' = 1
            /\ fsmState' = fsmState
            /\ pc' = IF fUninitializedBindingChannels' # <<>>
                     THEN "thrown" ELSE "bind_user"]_vars

\* The Binding handler threw on a channel that could not be bound: Bind() and
\* Auto were not reached, the machine is still in Binding.
C14_Witness ==
    /\ fState = "Binding"
    /\ pc = "thrown"
    /\ attachCalls = 1
    /\ fUninitializedBindingChannels # <<>>
    /\ fsmState = "Binding"

\* C15: the pool holds one instance per kind it has and keeps it until the
\* reset: no step but ResetWrapper's takes a kind out of the pool or changes
\* its instance; every AddTransport call of a user thread asks for the kind
\* named, DEFAULT being the device default when the call takes the lock,
\* returns the instance the pool holds for that kind, and creates one only
\* when the pool had none for it.
C15_OneInstancePerKind ==
    /\ [](\A k \in Kinds : k \in fTransports <=> factory[k] # 0)
    /\ [][/\ \A k \in fTransports :
                ~(pc = "reset" /\ pc' # "reset") =>
                    k \in fTransports' /\ factory'[k] = factory[k]
          /\ \A c \in Callers :
                /\ adder[c].pc = "idle" /\ adder'[c].pc = "find" =>
                      adder'[c].transport =
                          IF adder'[c].arg = "DEFAULT"
                          THEN fDefaultTransportType ELSE adder'[c].arg
                /\ adder[c].pc \in {"insert", "reuse"} /\ adder'[c].pc = "idle" =>
                      LET k == adder[c].transport
                      IN  /\ k \in fTransports'
                          /\ adder'[c].result = factory'[k]
                          /\ k \in fTransports => factory' = factory]_vars

\* Two user threads asked for the default transport after the worker had
\* made it for the device: both hold the worker's instance, the one pooled.
C15_Witness ==
    /\ \A c \in Callers : adder[c].pc = "idle" /\ adder[c].result # 0
    /\ adder["user1"].result = adder["user2"].result
    /\ fDefaultTransportType = "shmem"
    /\ factory["shmem"] = adder["user1"].result
    /\ fTransports = Kinds

HandledStates ==
    {"InitializingDevice", "Binding", "Connecting", "InitializingTask",
     "Running", "ResettingTask", "ResettingDevice", "Exiting"}

AutoStates ==
    {"Binding", "Connecting", "InitializingTask", "ResettingTask", "ResettingDevice"}

\* The handler returns in this step.
HandlerReturns == pc # "ret" /\ pc' = "ret"

\* This step is the driver's Auto, accepted.
AutoIssued ==
    /\ pc = "auto_req"
    /\ IsValid(fsmState, "Auto")
    /\ fsmState' = Target(fsmState, "Auto")
    /\ fNewStatePending'

\* C17 as stated: the handler of each of the eight states returns either
\* with a state it found pending or with its own Auto just issued.
C17_AutoAfterEveryHandler ==
    [][HandlerReturns /\ fState \in HandledStates =>
          \/ pc = "auto_check" /\ fNewStatePending
          \/ AutoIssued]_vars

\* C17 as amended: that holds for Binding, Connecting, InitializingTask,
\* ResettingTask and ResettingDevice, whose check goes on to the request
\* whenever nothing is pending; the Running handler returns after PostRun()
\* with a state pending, its own request being Stop and made at most once;
\* the InitializingDevice handler returns with the state it waited for (or a
\* later one) pending and the Exiting handler after Exit(), neither having
\* requested a transition.
C17_AutoWhereTheWrapperHasIt ==
    /\ [][HandlerReturns /\ fState \in AutoStates =>
            \/ pc = "auto_check" /\ fNewStatePending
            \/ AutoIssued]_vars
    /\ [][pc = "auto_check" /\ pc' # "auto_check" =>
            /\ fState \in AutoStates
            /\ pc' = IF fNewStatePending THEN "ret" ELSE "auto_req"]_vars
    /\ [][HandlerReturns /\ fState = "Running" =>
            /\ pc = "run_post"
            /\ fNewStatePending
            /\ run.stopReq <= 1
            /\ UNCHANGED smVars]_vars
    /\ [][HandlerReturns /\ fState = "InitializingDevice" =>
            pc = "init_chans" /\ fNewStatePending /\ UNCHANGED smVars]_vars
    /\ [][HandlerReturns /\ fState = "Exiting" =>
            pc = "exit" /\ UNCHANGED smVars]_vars

\* The Exiting handler has returned with nothing pending and nothing
\* requested: the machine is where the controller's End put it.
C17_Witness ==
    /\ fState = "Exiting"
    /\ pc = "ret"
    /\ fsmState = "Exiting"
    /\ ~fNewStatePending
    /\ ahead = 0

\* C18: after Binding every bound sub-channel's config value
\* chans.<name>.<index>.address is the channel's own address, the endpoints
\* that were attached, also where the bind address was "unspecified" or
\* empty and InitializingDevice filled it in.
C18_ConfigHoldsBoundAddress ==
    \A n \in DOMAIN fChannels : \A i \in 1..Len(fChannels[n]) :
        LET ch == fChannels[n][i]
        IN  ch.method = "bind" /\ ch.attached
                => cfgAddress[<<ch.name, ch.idx>>] = ch.address

\* The direction an endpoint's modifier stands for.
StoredModifier(mod) ==
    CASE mod = "@" -> "@"
      [] mod \in {"+", ">"} -> "+"
      [] OTHER -> ""

\* The attached sub-channels next to the address the device was started with.
AttachedPairs ==
    {p \in {[ch |-> fChannels[c.name][c.idx + 1], written |-> c.address]
             : c \in {x \in {config.chans[i] : i \in 1..Len(config.chans)} :
                        /\ Len(fChannels[x.name]) > x.idx
                        /\ x.address # Unspecified /\ x.address # <<>>}}
       : p.ch.attached}

\* C19 as stated: every stored endpoint has the modifier it was written with
\* and none where it had none, and an endpoint written @tcp://host:port is
\* stored with '@' and with an IP address for its host.
C19_ModifierKeptAsWritten ==
    \A p \in AttachedPairs :
        /\ Len(p.ch.address) = Len(p.written)
        /\ \A i \in 1..Len(p.written) :
            /\ p.ch.address[i].mod = p.written[i].mod
            /\ p.written[i].mod = "@" /\ p.written[i].scheme = "tcp"
                  => p.ch.address[i].host \in IpAddresses

\* C19 amended: every stored endpoint has the modifier of the direction it
\* was written with ('@' for '@', '+' for '+' and for '>') and none where it
\* had none; an endpoint written @tcp://host:port is stored with '@' and
\* with an IP address for its host, unless the host is "*", which stays.
C19_ModifierKeepsDirection ==
    \A p \in AttachedPairs :
        /\ Len(p.ch.address) = Len(p.written)
        /\ \A i \in 1..Len(p.written) :
            /\ p.ch.address[i].mod = StoredModifier(p.written[i].mod)
            /\ p.written[i].mod = "@" /\ p.written[i].scheme = "tcp"
                  => IF p.written[i].host = "*"
                     THEN p.ch.address[i].host = "*"
                     ELSE p.ch.address[i].host \in IpAddresses

C19_Witness ==
    \E p \in AttachedPairs :
        /\ Len(p.written) = 2
        /\ p.written[1] = Ep(">", "tcp", "live", 1)
        /\ p.written[2] = Ep("@", "tcp", "live", 1)
        /\ p.ch.address[2].host = "10.0.0.1"

\* C20: a rate-logged channel with rateLogging = n gets a log line only on
\* every n-th wake-up of the rate logger, and the rate of the line (messages
\* over milliseconds) is the increase of the channel's counter since its
\* previous line, or since the start snapshot, over the time since then.
C20_RateOverTimeSinceLastLine ==
    rateObs.line # NoLine =>
        /\ rateObs.line.wakeups = RateLogging
        /\ rateObs.line.msgs * rateObs.line.elapsed
              = rateObs.line.increase * rateObs.line.ms

\* A Receive has come back negative with no transition pending, no callback
\* has returned false and none has thrown, and no controller has had a
\* transition accepted during this Running phase.
NegativeReceiveEndedRun ==
    /\ fState = "Running"
    /\ run.negRecv
    /\ ~run.cbFalse
    /\ ~run.threw
    /\ run.ext = 0

\* The driver has requested its Stop, once, and the device is in Ready.
StoppedByDriver == run.stopReq = 1 /\ fsmState = "Ready"

\* C21: in each dispatch path a data callback is invoked only on a message
\* whose Receive was not negative; a negative Receive with no transition
\* pending invokes no callback and ends the dispatch like a callback's false:
\* the loop's flag is false and stays so, no further callback is invoked, and
\* the driver, unless a thread throws, comes to request Stop, exactly once,
\* which takes the device to Ready.
C21_NegativeReceiveEndsDispatch ==
    /\ [](~run.cbOnNeg)
    /\ [](NegativeReceiveEndedRun =>
            /\ pc \notin {"recv", "poll", "poll_scan"}
            /\ pc \in {"loop", "poll_loop"} => ~proceed
            /\ pc = "mt_join" => /\ ~fMultitransportProceed
                                 /\ \A k \in Kinds : poller[k] # "call"
            /\ pc \in {"loop", "poll_loop", "mt_join", "run_check", "run_stop"}
                  => run.stopReq = 0 /\ fsmState = "Running"
            /\ pc \in {"run_post", "ret"} => StoppedByDriver)
    /\ [][NegativeReceiveEndedRun => calls' = calls]_vars
    /\ (NegativeReceiveEndedRun
          ~> (StoppedByDriver \/ pc = "terminated" \/ ~NegativeReceiveEndedRun))

\* The fan-out left on a negative Receive of one of its poller threads, no
\* callback having run at all: the driver has requested Stop.
C21_Witness ==
    /\ NegativeReceiveEndedRun
    /\ Cardinality(InputTransports) > 1
    /\ ~run.called
    /\ pc = "run_post"
    /\ StoppedByDriver

\* ------------------------------------------------------------------- C22
\* The entries of a working list that point to sub-channel pos of channel
\* name.
Refs(list, name, pos) ==
    Cardinality({i \in 1..Len(list) :
                   ~list[i].stale /\ list[i].name = name /\ list[i].pos = pos})

\* InitializingDevice has completed without throwing.
InitCompleted == fState = "InitializingDevice" /\ pc = "ret"

\* C22: when InitializingDevice completes without throwing, every
\* sub-channel of the channel map is in exactly one working list, once: a
\* "bind" sub-channel in the binding list, a "connect" sub-channel or one
\* with no method but a modifier in its address in the connecting list; no
\* sub-channel has neither method nor modifier (the handler would have
\* thrown).
C22_EverySubChannelInOneListOnce ==
    InitCompleted =>
        \A name \in ChannelNames : \A pos \in 1..Len(fChannels[name]) :
            LET ch == fChannels[name][pos]
                b == Refs(fUninitializedBindingChannels, name, pos)
                c == Refs(fUninitializedConnectingChannels, name, pos)
            IN  /\ ch.method \in {"bind", "connect"} \/ HasModifier(ch.address)
                /\ IF ch.method = "bind" THEN b = 1 /\ c = 0
                                         ELSE b = 0 /\ c = 1

\* The same on a pass that found both working lists empty.
C22_OnEmptyLists ==
    [][(pc = "init_chans" /\ InitCompleted'
        /\ fUninitializedBindingChannels = <<>>
        /\ fUninitializedConnectingChannels = <<>>)
       => C22_EverySubChannelInOneListOnce']_vars

\* ------------------------------------------------------------------- C24
\* The entry points to a sub-channel the channel map holds now.
RefersToLiveChannel(e) == ~e.stale /\ e.pos \in 1..Len(fChannels[e.name])

\* C24: in every reachable state each entry of the binding and of the
\* connecting working list refers to a sub-channel that exists in the
\* channel map: no entry survives ResettingDevice, whatever the earlier
\* pass left in the lists.
C24_EntriesReferToLiveChannels ==
    /\ \A i \in 1..Len(fUninitializedBindingChannels) :
         RefersToLiveChannel(fUninitializedBindingChannels[i])
    /\ \A i \in 1..Len(fUninitializedConnectingChannels) :
         RefersToLiveChannel(fUninitializedConnectingChannels[i])

\* ------------------------------------------------------------------- C23
\* C23: a transition the driver issues itself after checking
\* !NewStatePending() (Auto at the end of Binding, Connecting,
\* InitializingTask, ResettingTask and ResettingDevice, Stop at the end of
\* Running) is valid for the state the machine is in when it is issued, so
\* it is never rejected; an external Stop between the check and the
\* driver's Stop does not turn a clean end of Running into ErrorFound.
C23_DriverTransitionIsValid ==
    /\ pc = "auto_req" => IsValid(fsmState, "Auto")
    /\ pc = "run_stop" => IsValid(fsmState, "Stop")

\* ------------------------------------------------------------------- C25
\* The Running handler is at the join of its rate-logger thread, on the
\* normal path or on the error unwind.
AtLoggerJoin ==
    fState = "Running" /\ pc \in {"ret", "thrown"} /\ rateLogger.pc # "none"

\* C25: the Running handler never blocks forever joining the rate-logger
\* thread: on every exit path, normal or exceptional, a transition is
\* pending when the join is performed and as long as the handler is at it,
\* the logger's loop ends, and the handler returns.
C25_LoggerJoinReturns ==
    /\ [](AtLoggerJoin => NewStatePending)
    /\ (AtLoggerJoin ~> LoggerJoined)
    /\ (AtLoggerJoin ~> ~run.active)

\* The error unwind has requested ErrorFound with nothing else pending, and
\* the logger, found in its loop by the join, has left it.
C25_Witness ==
    /\ AtLoggerJoin
    /\ pc = "thrown"
    /\ run.ext = 0
    /\ run.efReq = 1
    /\ rateLogger.pc = "done"
    /\ clock > 0

\* ------------------------------------------------------------------- C26
\* The worker is inside the handler of the Running state.
RunningHandlerExecuting ==
    fState = "Running" /\ pc \notin {"wait", "prepare", "handle", "stopped", "terminated"}

\* C26: an interrupt is never lost: whenever a transition request is pending
\* while the Running handler is executing, every pooled transport is in the
\* interrupted state (the resume of PrepareState never follows the interrupt
\* of a request the handler has still to observe).
C26_PendingMeansInterrupted ==
    (RunningHandlerExecuting /\ NewStatePending) =>
        \A k \in fTransports : interrupted[k]
====
